---- MODULE Spec2Model ----
(***************************************************************************)
(* Chat client core of yurieplatforms/research:                            *)
(*   - the transport decoder  extractEventsFromBuffer (lib/chat/streaming) *)
(*   - the message aggregation done by ChatPanel.sendMessage / handleStop  *)
(* Text is a sequence of fragments (short literal pieces of the stream);   *)
(* message text is a sequence of one-character strings.                    *)
(***************************************************************************)
EXTENDS Integers, Sequences, FiniteSets, TLC

(***************************************************************************)
(* Bounds of the model.                                                    *)
(***************************************************************************)
MaxUnits == 3
MaxSends == 3
MaxChunks == 3
MaxTicks == 1
MaxList == 3
LiveSends == 2
LiveChunks == 1
MaxDepth == 2
MaxIterations == 12
MaxCalls == 2
MaxSelections == 2
MaxFiles == 3

(***************************************************************************)
(* Options: undefined is <<>>, a present value v is <<v>>.                 *)
(***************************************************************************)
None == <<>>
Some(v) == <<v>>
IsSome(o) == o # <<>>
Val(o) == o[1]

(***************************************************************************)
(* Generic sequence helpers (String.prototype methods on fragment lists).  *)
(***************************************************************************)
Drop(s, n) == SubSeq(s, n + 1, Len(s))
Take(s, n) == SubSeq(s, 1, n)

startsWith(s, p) == Len(s) >= Len(p) /\ Take(s, Len(p)) = p
endsWith(s, p) == Len(s) >= Len(p) /\ Drop(s, Len(s) - Len(p)) = p

RECURSIVE join(_)
join(ss) == IF ss = <<>> THEN <<>> ELSE Head(ss) \o join(Tail(ss))

\* String.prototype.split with a non-empty separator: left to right,
\* non-overlapping matches; the empty string splits to one empty piece.
RECURSIVE splitAcc(_, _, _)
splitAcc(s, sep, cur) ==
    IF s = <<>> THEN <<cur>>
    ELSE IF startsWith(s, sep)
         THEN <<cur>> \o splitAcc(Drop(s, Len(sep)), sep, <<>>)
         ELSE splitAcc(Tail(s), sep, Append(cur, Head(s)))

split(s, sep) == splitAcc(s, sep, <<>>)

(***************************************************************************)
(* Fragments of the event stream.                                          *)
(***************************************************************************)
NL == "\n"
SP == " "
DATA == "data:"
DONE == "[DONE]"
DONELC == "[done]"
CMT == ": keep-alive"
BAD == "{oops"
JOPEN == "{\"choices\":[{\"delta\":{\"content\":\"Hi"
JCLOSE == "\"}}]}"
JWS == "{\"choices\":[{\"delta\":{\"content\":\" \\n\"}}]}"
JREASON == "{\"choices\":[{\"delta\":{\"reasoning\":\" Hm \"}}]}"
JBOTH == "{\"choices\":[{\"delta\":{\"content\":\"ok\",\"reasoning\":\"so\"}}]}"
JEMPTY == "{}"

DELIM == <<NL, NL>>

\* characters String.prototype.trim and the \s class remove
IsSpace(c) == c \in {" ", "\n", "\t", "\r"}

RECURSIVE trimStart(_)
trimStart(s) == IF s # <<>> /\ IsSpace(Head(s)) THEN trimStart(Tail(s)) ELSE s

RECURSIVE trimEnd(_)
trimEnd(s) ==
    IF s # <<>> /\ IsSpace(s[Len(s)]) THEN trimEnd(Take(s, Len(s) - 1)) ELSE s

trim(s) == trimEnd(trimStart(s))

(***************************************************************************)
(* JSON values: tagged records.                                            *)
(***************************************************************************)
JUndef == [t |-> "undef"]
JNull == [t |-> "null"]
JStr(s) == [t |-> "str", s |-> s]
JArr(a) == [t |-> "arr", a |-> a]
JObj(f) == [t |-> "obj", f |-> f]

Nullish(v) == v.t \in {"undef", "null"}
\* v?.k
Get(v, k) == IF v.t = "obj" /\ k \in DOMAIN v.f THEN v.f[k] ELSE JUndef
\* v?.[0]
First(v) == IF v.t = "arr" /\ Len(v.a) >= 1 THEN v.a[1] ELSE JUndef
\* a ?? b
Coalesce(a, b) == IF Nullish(a) THEN b ELSE a

Delta(fields) == JObj("choices" :> JArr(<<JObj("delta" :> JObj(fields))>>))

\* JSON.parse on the payloads the stream fragments can form: the parsed value,
\* or None for a SyntaxError.
JSONParse(payload) ==
    CASE payload = <<JOPEN, JCLOSE>> ->
            Some(Delta("content" :> JStr(<<"H", "i">>)))
      [] payload = <<JWS>> ->
            Some(Delta("content" :> JStr(<<" ", "\n">>)))
      [] payload = <<JREASON>> ->
            Some(Delta("reasoning" :> JStr(<<" ", "H", "m", " ">>)))
      [] payload = <<JBOTH>> ->
            Some(Delta("content" :> JStr(<<"o", "k">>)
                       @@ "reasoning" :> JStr(<<"s", "o">>)))
      [] payload = <<JEMPTY>> -> Some(JObj(<<>>))
      [] OTHER -> None

RECURSIVE extractTextFromContent(_)
extractTextFromContent(source) ==
    CASE source.t = "str" -> source.s
      [] source.t = "arr" ->
            join([i \in 1..Len(source.a) |-> extractTextFromContent(source.a[i])])
      [] source.t = "obj" ->
            IF Get(source, "text").t = "str" THEN Get(source, "text").s
            ELSE IF Get(source, "content").t # "undef"
                 THEN extractTextFromContent(Get(source, "content"))
                 ELSE <<>>
      [] OTHER -> <<>>

RECURSIVE extractReasoningText(_)
extractReasoningText(source) ==
    CASE source.t = "str" -> source.s
      [] source.t = "arr" ->
            join([i \in 1..Len(source.a) |-> extractReasoningText(source.a[i])])
      [] source.t = "obj" ->
            IF Get(source, "text").t = "str" THEN Get(source, "text").s
            ELSE IF Get(source, "summary").t = "str"
                 THEN Get(source, "summary").s \o <<"\n", "\n">>
            ELSE IF Get(source, "data").t = "str" THEN Get(source, "data").s
            ELSE IF Get(source, "content").t # "undef"
                 THEN extractReasoningText(Get(source, "content"))
                 ELSE <<>>
      [] OTHER -> <<>>

(***************************************************************************)
(* Stream events.                                                          *)
(***************************************************************************)
PARSE_ERROR == "Failed to parse streaming chunk."

DoneEvent == [type |-> "done", content |-> None, reasoning |-> None, error |-> None]
ErrorEvent(m) == [type |-> "error", content |-> None, reasoning |-> None, error |-> Some(m)]
DeltaEvent(c, r) == [type |-> "delta", content |-> c, reasoning |-> r, error |-> None]

\* dedupe that keeps every chunk
dedupeKeepAll(chunks) == [i \in 1..Len(chunks) |-> Some(chunks[i])]

\* chunks.filter((chunk, index, array) => array.indexOf(chunk) === index)
dedupe(chunks) ==
    SelectSeq(
        [i \in 1..Len(chunks) |->
            IF \E j \in 1..(i - 1) : chunks[j] = chunks[i] THEN None ELSE Some(chunks[i])],
        IsSome)

\* parsedEvents that emits both fields whenever it emits, empty or not
parsedEventsEmptyFields(parsed) ==
    LET choice == First(Get(parsed, "choices"))
        deltaRoot ==
            Coalesce(Get(choice, "delta"),
            Coalesce(Get(choice, "message"),
            Coalesce(Get(parsed, "delta"),
            Coalesce(Get(parsed, "message"), JObj(<<>>)))))
        msg == Get(choice, "message")
        contentDelta ==
            extractTextFromContent(
                Coalesce(Get(deltaRoot, "content"), Get(msg, "content")))
        reasoningChunks ==
            SelectSeq(
                << extractReasoningText(
                       Coalesce(Get(deltaRoot, "reasoning"), Get(msg, "reasoning"))),
                   extractReasoningText(
                       Coalesce(Get(deltaRoot, "reasoning_details"),
                                Get(msg, "reasoning_details"))) >>,
                LAMBDA c : Len(c) > 0)
        unique == dedupe(reasoningChunks)
        reasoningDelta ==
            IF Len(reasoningChunks) > 0
            THEN join([i \in 1..Len(unique) |-> Val(unique[i])])
            ELSE <<>>
    IN  IF Len(contentDelta) > 0 \/ Len(reasoningDelta) > 0
        THEN << DeltaEvent(Some(contentDelta), Some(reasoningDelta)) >>
        ELSE <<>>

\* the body of the try block: the events of one parsed payload
parsedEvents(parsed) ==
    LET choice == First(Get(parsed, "choices"))
        deltaRoot ==
            Coalesce(Get(choice, "delta"),
            Coalesce(Get(choice, "message"),
            Coalesce(Get(parsed, "delta"),
            Coalesce(Get(parsed, "message"), JObj(<<>>)))))
        msg == Get(choice, "message")
        contentDelta ==
            extractTextFromContent(
                Coalesce(Get(deltaRoot, "content"), Get(msg, "content")))
        reasoningChunks ==
            SelectSeq(
                << extractReasoningText(
                       Coalesce(Get(deltaRoot, "reasoning"), Get(msg, "reasoning"))),
                   extractReasoningText(
                       Coalesce(Get(deltaRoot, "reasoning_details"),
                                Get(msg, "reasoning_details"))) >>,
                LAMBDA c : Len(c) > 0)
        unique == dedupe(reasoningChunks)
        reasoningDelta ==
            IF Len(reasoningChunks) > 0
            THEN join([i \in 1..Len(unique) |-> Val(unique[i])])
            ELSE <<>>
    IN  IF Len(contentDelta) > 0 \/ Len(reasoningDelta) > 0
        THEN << DeltaEvent(
                    IF Len(contentDelta) > 0 THEN Some(contentDelta) ELSE None,
                    IF Len(reasoningDelta) > 0 THEN Some(reasoningDelta) ELSE None) >>
        ELSE <<>>

\* segment.split("\n").find((entry) => entry.startsWith("data:"))
dataLine(segment) ==
    LET lines == split(segment, <<NL>>)
        hits == SelectSeq(lines, LAMBDA entry : startsWith(entry, <<DATA>>))
    IN  IF hits = <<>> THEN None ELSE Some(Head(hits))

\* segmentEvents with the sentinel compared without regard to case
segmentEventsAnyCase(segment) ==
    LET line == dataLine(segment)
        payload == trim(Drop(Val(line), 1))
        parsed == JSONParse(payload)
    IN  IF ~IsSome(line) THEN <<>>
        ELSE IF payload = <<>> THEN <<>>
        ELSE IF payload \in {<<DONE>>, <<DONELC>>} THEN <<DoneEvent>>
        ELSE IF IsSome(parsed) THEN parsedEvents(Val(parsed))
        ELSE <<ErrorEvent(PARSE_ERROR)>>

\* one iteration of the loop over the segments
segmentEvents(segment) ==
    LET line == dataLine(segment)
        payload == trim(Drop(Val(line), 1))
        parsed == JSONParse(payload)
    IN  IF ~IsSome(line) THEN <<>>
        ELSE IF payload = <<>> THEN <<>>
        ELSE IF payload = <<DONE>> THEN <<DoneEvent>>
        ELSE IF IsSome(parsed) THEN parsedEvents(Val(parsed))
        ELSE <<ErrorEvent(PARSE_ERROR)>>

\* segmentsEvents with the try/catch around the whole loop: the first
\* unparseable payload ends the batch
RECURSIVE segmentsEventsCatchOutside(_)
segmentsEventsCatchOutside(segments) ==
    IF segments = <<>> THEN <<>>
    ELSE LET head == segmentEvents(Head(segments))
         IN  IF head # <<>> /\ head[1].type = "error" THEN head
             ELSE head \o segmentsEventsCatchOutside(Tail(segments))

\* segmentsEvents handing the events of the last segment out first
RECURSIVE segmentsEventsNewestFirst(_)
segmentsEventsNewestFirst(segments) ==
    IF segments = <<>> THEN <<>>
    ELSE segmentsEventsNewestFirst(Tail(segments)) \o segmentEvents(Head(segments))

\* for (const segment of segments) { ... }
RECURSIVE segmentsEvents(_)
segmentsEvents(segments) ==
    IF segments = <<>> THEN <<>>
    ELSE segmentEvents(Head(segments)) \o segmentsEvents(Tail(segments))

\* extractEventsFromBuffer parsing the unterminated last segment as well
extractEventsEager(buf) ==
    LET all == split(buf, DELIM)
        isTerminated == endsWith(buf, DELIM)
    IN  [events |-> segmentsEvents(all),
         remainder |-> IF isTerminated THEN <<>> ELSE all[Len(all)]]

\* extractEventsFromBuffer that never holds a partial frame back
extractEventsNoRemainder(buf) ==
    LET all == split(buf, DELIM)
        isTerminated == endsWith(buf, DELIM)
        segments == IF isTerminated THEN all ELSE Take(all, Len(all) - 1)
    IN  [events |-> segmentsEvents(segments), remainder |-> <<>>]

extractEventsFromBuffer(buf) ==
    LET all == split(buf, DELIM)
        isTerminated == endsWith(buf, DELIM)
        remainder == IF isTerminated THEN <<>> ELSE all[Len(all)]
        segments == IF isTerminated THEN all ELSE Take(all, Len(all) - 1)
    IN  [events |-> segmentsEvents(segments), remainder |-> remainder]

(***************************************************************************)
(* Chat messages (lib/chat/types, lib/chat/messages).                      *)
(***************************************************************************)
\* the failure marker of the catch block: U+26A0 U+FE0F and a space
FAILURE_MARK == "[warning sign] "
ABORT_ERROR == "The user aborted a request."
NETWORK_ERROR == "Failed to fetch"
SERVER_ERROR == "Internal Server Error"
NO_RESPONSE_ERROR == "The assistant was unable to respond. Please retry."

\* a placeholder that is created reasoning-streaming
createPlaceholderMessageStreaming(id) ==
    [ id |-> id, role |-> "assistant", content |-> <<>>, attachments |-> None,
      reasoning |-> Some(<<>>), reasoningDurationSeconds |-> None,
      reasoningStartedAt |-> None, reasoningStoppedAt |-> None,
      isReasoningStreaming |-> TRUE ]

createPlaceholderMessage(id) ==
    [ id |-> id, role |-> "assistant", content |-> <<>>, attachments |-> None,
      reasoning |-> Some(<<>>), reasoningDurationSeconds |-> None,
      reasoningStartedAt |-> None, reasoningStoppedAt |-> None,
      isReasoningStreaming |-> FALSE ]

createUserMessage(id, trimmed, pending) ==
    [ id |-> id, role |-> "user", content |-> trimmed,
      attachments |-> IF Len(pending) > 0 THEN Some(pending) ELSE None,
      reasoning |-> None, reasoningDurationSeconds |-> None,
      reasoningStartedAt |-> None, reasoningStoppedAt |-> None,
      isReasoningStreaming |-> FALSE ]

\* the messages an updater can be handed
Messages(list) == {list[i] : i \in 1..Len(list)}

\* updateMessageById writing the updated entry into the array it was given
updateMessageByIdInPlace(heap, ref, id, updater) ==
    LET list == heap[ref]
        hits == {i \in 1..Len(list) : list[i].id = id}
        index == CHOOSE i \in hits : \A j \in hits : i <= j
    IN  IF hits = {} THEN [heap |-> heap, ret |-> ref, calls |-> 0]
        ELSE [heap |-> [heap EXCEPT ![ref][index] = updater[list[index]]],
              ret |-> ref, calls |-> 1]

\* updateMessageById adding a message for an id it does not find
updateMessageByIdUpsert(heap, ref, id, updater) ==
    LET list == heap[ref]
        hits == {i \in 1..Len(list) : list[i].id = id}
        index == CHOOSE i \in hits : \A j \in hits : i <= j
    IN  IF hits = {}
        THEN [heap |-> Append(heap, Append(list, createPlaceholderMessage(id))),
              ret |-> Len(heap) + 1, calls |-> 0]
        ELSE [heap |-> Append(heap, [list EXCEPT ![index] = updater[list[index]]]),
              ret |-> Len(heap) + 1, calls |-> 1]

\* updateMessageById on arrays held by reference: heap is the sequence of the
\* arrays that exist, ref the array passed in, updater a function on its
\* messages. Gives the heap after the call, the array returned and the
\* number of times the updater was invoked.
updateMessageByIdCall(heap, ref, id, updater) ==
    LET list == heap[ref]
        hits == {i \in 1..Len(list) : list[i].id = id}
        \* messages.findIndex((message) => message.id === id)
        index == CHOOSE i \in hits : \A j \in hits : i <= j
    IN  IF hits = {} THEN [heap |-> heap, ret |-> ref, calls |-> 0]
        \* const next = messages.slice(); next[index] = updater(next[index])
        ELSE [heap |-> Append(heap, [list EXCEPT ![index] = updater[list[index]]]),
              ret |-> Len(heap) + 1, calls |-> 1]

\* the list updateMessageById returns
updateMessageById(list, id, updater) ==
    LET call == updateMessageByIdCall(<<list>>, 1, id, updater)
    IN  call.heap[call.ret]

\* formatAssistantMessage without the replace
formatAssistantMessageKeep(content) == content

\* content.replace(/\s+$/g, "")
formatAssistantMessage(content) == trimEnd(content)

Max(a, b) == IF a >= b THEN a ELSE b
\* Math.round(ms / 1000)
RoundSeconds(ms) == (ms + 500) \div 1000
\* elapsedSeconds without the floor of one second
elapsedSecondsRounded(startedAt, stoppedAt) == RoundSeconds(stoppedAt - startedAt)

\* Math.max(1, Math.round((stoppedAt - startedAt) / 1000))
elapsedSeconds(startedAt, stoppedAt) == Max(1, RoundSeconds(stoppedAt - startedAt))

\* the delta updater with the handoff tested before the reasoning branch
foldDeltaContentFirst(message, content, reasoning, t) ==
    LET hasContent == IsSome(content) /\ Len(Val(content)) > 0
        hasReasoning == IsSome(reasoning) /\ Len(Val(reasoning)) > 0
        next == [message EXCEPT
                    !.content = IF hasContent THEN @ \o Val(content) ELSE @]
        previousReasoning ==
            IF IsSome(message.reasoning) THEN Val(message.reasoning) ELSE <<>>
        stoppedAt ==
            IF IsSome(message.reasoningStoppedAt) THEN message.reasoningStoppedAt
            ELSE message.reasoningStartedAt
    IN  IF hasContent /\ message.isReasoningStreaming
        THEN [next EXCEPT
                !.isReasoningStreaming = FALSE,
                !.reasoningDurationSeconds =
                    IF    /\ ~IsSome(next.reasoningDurationSeconds)
                          /\ IsSome(message.reasoningStartedAt)
                          /\ IsSome(stoppedAt)
                    THEN Some(elapsedSeconds(Val(message.reasoningStartedAt),
                                             Val(stoppedAt)))
                    ELSE @]
        ELSE IF hasReasoning
        THEN [next EXCEPT
                !.reasoning = Some(previousReasoning \o Val(reasoning)),
                !.reasoningStartedAt =
                    IF IsSome(message.reasoningStartedAt) THEN @ ELSE Some(t),
                !.reasoningStoppedAt = Some(t),
                !.isReasoningStreaming = TRUE]
        ELSE next

\* the delta updater taking a new start time at every reasoning delta
foldDeltaRestart(message, content, reasoning, t) ==
    LET hasContent == IsSome(content) /\ Len(Val(content)) > 0
        hasReasoning == IsSome(reasoning) /\ Len(Val(reasoning)) > 0
        next == [message EXCEPT
                    !.content = IF hasContent THEN @ \o Val(content) ELSE @]
        previousReasoning ==
            IF IsSome(message.reasoning) THEN Val(message.reasoning) ELSE <<>>
    IN  IF hasReasoning
        THEN [next EXCEPT
                !.reasoning = Some(previousReasoning \o Val(reasoning)),
                !.reasoningStartedAt = Some(t),
                !.reasoningStoppedAt = Some(t),
                !.isReasoningStreaming = TRUE]
        ELSE IF hasContent /\ message.isReasoningStreaming
        THEN [next EXCEPT !.isReasoningStreaming = FALSE]
        ELSE next

\* the delta updater storing the stop time only while it is unset
foldDeltaStopOnce(message, content, reasoning, t) ==
    LET hasContent == IsSome(content) /\ Len(Val(content)) > 0
        hasReasoning == IsSome(reasoning) /\ Len(Val(reasoning)) > 0
        next == [message EXCEPT
                    !.content = IF hasContent THEN @ \o Val(content) ELSE @]
        previousReasoning ==
            IF IsSome(message.reasoning) THEN Val(message.reasoning) ELSE <<>>
    IN  IF hasReasoning
        THEN [next EXCEPT
                !.reasoning = Some(previousReasoning \o Val(reasoning)),
                !.reasoningStartedAt =
                    IF IsSome(message.reasoningStartedAt) THEN @ ELSE Some(t),
                !.reasoningStoppedAt =
                    IF IsSome(message.reasoningStoppedAt) THEN @ ELSE Some(t),
                !.isReasoningStreaming = TRUE]
        ELSE IF hasContent /\ message.isReasoningStreaming
        THEN [next EXCEPT !.isReasoningStreaming = FALSE]
        ELSE next

\* the updater of a delta event (content, reasoning: options of text)
foldDelta(message, content, reasoning, t) ==
    LET hasContent == IsSome(content) /\ Len(Val(content)) > 0
        hasReasoning == IsSome(reasoning) /\ Len(Val(reasoning)) > 0
        next == [message EXCEPT
                    !.content = IF hasContent THEN @ \o Val(content) ELSE @]
        previousReasoning ==
            IF IsSome(message.reasoning) THEN Val(message.reasoning) ELSE <<>>
        stoppedAt ==
            IF IsSome(message.reasoningStoppedAt) THEN message.reasoningStoppedAt
            ELSE message.reasoningStartedAt
    IN  IF hasReasoning
        THEN [next EXCEPT
                !.reasoning = Some(previousReasoning \o Val(reasoning)),
                !.reasoningStartedAt =
                    IF IsSome(message.reasoningStartedAt) THEN @ ELSE Some(t),
                !.reasoningStoppedAt = Some(t),
                !.isReasoningStreaming = TRUE]
        ELSE IF hasContent /\ message.isReasoningStreaming
        THEN [next EXCEPT
                !.isReasoningStreaming = FALSE,
                !.reasoningDurationSeconds =
                    IF    /\ ~IsSome(next.reasoningDurationSeconds)
                          /\ IsSome(message.reasoningStartedAt)
                          /\ IsSome(stoppedAt)
                    THEN Some(elapsedSeconds(Val(message.reasoningStartedAt),
                                             Val(stoppedAt)))
                    ELSE @]
        ELSE next

\* finalizeMessage dropping the duration together with the timestamps
finalizeMessageDropDuration(message, t) ==
    [message EXCEPT
        !.content = formatAssistantMessage(message.content),
        !.reasoning = IF IsSome(@) /\ trim(Val(@)) # <<>> THEN Some(trim(Val(@))) ELSE None,
        !.reasoningDurationSeconds = None,
        !.reasoningStartedAt = None,
        !.reasoningStoppedAt = None,
        !.isReasoningStreaming = FALSE]

\* the updater run when reader.read() reports done
finalizeMessage(message, t) ==
    LET trimmedContent == formatAssistantMessage(message.content)
        cleanedReasoning ==
            IF IsSome(message.reasoning) THEN Some(trim(Val(message.reasoning)))
            ELSE None
        reasoningStartedAt == message.reasoningStartedAt
        reasoningStoppedAt ==
            IF    /\ ~IsSome(message.reasoningStoppedAt)
                  /\ IsSome(reasoningStartedAt)
                  /\ message.isReasoningStreaming
            THEN Some(t)
            ELSE message.reasoningStoppedAt
        reasoningDuration ==
            IF    /\ ~IsSome(message.reasoningDurationSeconds)
                  /\ IsSome(reasoningStartedAt)
                  /\ IsSome(reasoningStoppedAt)
                  /\ Val(reasoningStoppedAt) >= Val(reasoningStartedAt)
            THEN Some(elapsedSeconds(Val(reasoningStartedAt), Val(reasoningStoppedAt)))
            ELSE message.reasoningDurationSeconds
    IN  [message EXCEPT
            !.content = trimmedContent,
            !.reasoning =
                IF IsSome(cleanedReasoning) /\ Len(Val(cleanedReasoning)) > 0
                THEN cleanedReasoning ELSE None,
            !.reasoningDurationSeconds = reasoningDuration,
            !.reasoningStartedAt = None,
            !.reasoningStoppedAt = None,
            !.isReasoningStreaming = FALSE]

\* failMessage keeping what had been streamed in front of the error text
failMessageAppend(message, fallback) ==
    [message EXCEPT
        !.content = @ \o <<FAILURE_MARK, fallback>>,
        !.isReasoningStreaming = FALSE]

\* the updater of the catch block
failMessage(message, fallback) ==
    [message EXCEPT
        !.content = <<FAILURE_MARK, fallback>>,
        !.reasoning = None,
        !.reasoningDurationSeconds = None,
        !.reasoningStartedAt = None,
        !.reasoningStoppedAt = None,
        !.isReasoningStreaming = FALSE]

\* foldEvents that remembers the first error and goes on with the events
\* behind it
RECURSIVE foldEventsPastError(_, _, _, _, _)
foldEventsPastError(list, id, evs, buf, t) ==
    IF evs = <<>> THEN [messages |-> list, buffer |-> buf, thrown |-> None]
    ELSE LET event == Head(evs)
             noContent == ~IsSome(event.content) \/ Val(event.content) = <<>>
             noReasoning == ~IsSome(event.reasoning) \/ Val(event.reasoning) = <<>>
             rest == foldEventsPastError(list, id, Tail(evs), buf, t)
         IN  IF event.type = "delta"
             THEN IF noContent /\ noReasoning
                  THEN rest
                  ELSE foldEventsPastError(
                           updateMessageById(list, id,
                               [m \in Messages(list) |->
                                   foldDelta(m, event.content, event.reasoning, t)]),
                           id, Tail(evs), buf, t)
             ELSE IF event.type = "error"
             THEN [rest EXCEPT !.thrown = event.error]
             ELSE foldEventsPastError(list, id, Tail(evs), <<>>, t)

\* for (const event of events) { ... }: the list after the folds, the buffer,
\* and the message of the error thrown, if one was
RECURSIVE foldEvents(_, _, _, _, _)
foldEvents(list, id, evs, buf, t) ==
    IF evs = <<>> THEN [messages |-> list, buffer |-> buf, thrown |-> None]
    ELSE LET event == Head(evs)
             noContent == ~IsSome(event.content) \/ Val(event.content) = <<>>
             noReasoning == ~IsSome(event.reasoning) \/ Val(event.reasoning) = <<>>
         IN  IF event.type = "delta"
             THEN IF noContent /\ noReasoning
                  THEN foldEvents(list, id, Tail(evs), buf, t)
                  ELSE foldEvents(
                           updateMessageById(list, id,
                               [m \in Messages(list) |->
                                   foldDelta(m, event.content, event.reasoning, t)]),
                           id, Tail(evs), buf, t)
             ELSE IF event.type = "error"
             THEN [messages |-> list, buffer |-> buf, thrown |-> event.error]
             ELSE foldEvents(list, id, Tail(evs), <<>>, t)

(***************************************************************************)
(* State.                                                                  *)
(*  Decoder harness                                                        *)
(*   text, pos      the response text and how much of it has arrived       *)
(*   buffer         the running buffer of the read loop (last remainder)   *)
(*   events         every event decoded so far, in order                   *)
(*   prevBuffer, lastChunk, callEvents                                     *)
(*                  the last call: its input is prevBuffer \o lastChunk,   *)
(*                  its result is callEvents and buffer                    *)
(*  ChatPanel                                                              *)
(*   messages, input, attachments, isStreaming     the useState values     *)
(*   abortRef       abortRef.current: None or the request it controls      *)
(*   requests       the sendMessage invocations: where each one is         *)
(*                  suspended, its buffer, its placeholder, whether its    *)
(*                  signal is aborted, how it ended                        *)
(*   nextId         the ids createId has handed out                        *)
(*   now            Date.now()                                             *)
(*   chunksRead, ticks   counters that bound the model                     *)
(*  Calls of the pure functions                                            *)
(*   args, returned the arguments of one call and what it returned         *)
(*  prepareImageAttachment                                                 *)
(*   file           the File the call was given                            *)
(*   opt            the call's position and the locals of                  *)
(*                  prepareImageAttachment and compressImageFile           *)
(*  handleAttachmentsSelect                                                *)
(*   selections     the invocations: where each one is suspended, its      *)
(*                  validFiles and attachmentsToAdd, and the files it has  *)
(*                  handed to prepareImageAttachment                       *)
(***************************************************************************)
VARIABLES text, pos, buffer, events, prevBuffer, lastChunk, callEvents,
          messages, input, attachments, isStreaming, abortRef, requests,
          nextId, now, chunksRead, ticks, args, returned, file, opt, selections

decVars == <<text, pos, buffer, events, prevBuffer, lastChunk, callEvents>>
panelVars == <<messages, input, attachments, isStreaming, abortRef, requests,
               nextId, now, chunksRead, ticks>>
callVars == <<args, returned>>
optVars == <<file, opt, selections>>
vars == <<decVars, panelVars, callVars, optVars>>

TickMs == 1600
Epoch == 1000

Requests == 1..MaxSends

IdleRequest ==
    [ pc |-> "idle", buffer |-> <<>>, placeholder |-> 0, aborted |-> FALSE,
      outcome |-> "none", error |-> None ]

\* no call made
NoCall == [fn |-> "none"]
\* no file given
NoFile == [name |-> <<>>]
Selections == 1..MaxSelections
IdleSelection ==
    [ pc |-> "idle", fileList |-> <<>>, validFiles |-> <<>>, index |-> 0,
      attachmentsToAdd |-> <<>>, invoked |-> <<>> ]
OptIdle ==
    /\ file = NoFile
    /\ opt = [pc |-> "idle"]
    /\ selections = [s \in Selections |-> IdleSelection]
CallIdle == args = NoCall /\ returned = NoCall /\ OptIdle

PanelInit ==
    /\ messages = <<>>
    /\ input = <<>>
    /\ attachments = <<>>
    /\ isStreaming = FALSE
    /\ abortRef = None
    /\ requests = [r \in Requests |-> IdleRequest]
    /\ nextId = 0
    /\ now = Epoch
    /\ chunksRead = 0
    /\ ticks = 0

(***************************************************************************)
(* Inputs of the decoder: up to MaxUnits stream units, concatenated.       *)
(***************************************************************************)
Units ==
    { <<DATA, SP, JOPEN, JCLOSE, NL, NL>>,   \* content delta, JSON in two pieces
      <<DATA, DONE, SP, NL, NL>>,            \* sentinel, padded
      <<DATA, DONELC, NL, NL>>,              \* sentinel in the wrong case
      <<DATA, BAD, NL, NL>>,                 \* unparseable payload
      <<DATA, SP, NL, NL>>,                  \* data line with a blank payload
      <<CMT, NL>>,                           \* comment line inside a frame
      <<NL>> }                               \* a lone newline

RECURSIVE TextsUpTo(_)
TextsUpTo(n) ==
    IF n = 0 THEN {<<>>}
    ELSE LET shorter == TextsUpTo(n - 1)
         IN  shorter \cup {t \o u : t \in shorter, u \in Units}

DecIdle ==
    /\ pos = 0
    /\ buffer = <<>>
    /\ events = <<>>
    /\ prevBuffer = <<>>
    /\ lastChunk = <<>>
    /\ callEvents = <<>>

DecoderInit ==
    /\ text \in TextsUpTo(MaxUnits)
    /\ DecIdle
    /\ PanelInit
    /\ CallIdle

\* One pass of the read loop: buffer += chunk; decode; buffer = remainder.
Feed(k) ==
    /\ pos + k <= Len(text)
    /\ LET piece == SubSeq(text, pos + 1, pos + k)
           result == extractEventsFromBuffer(buffer \o piece)
       IN  /\ prevBuffer' = buffer
           /\ lastChunk' = piece
           /\ callEvents' = result.events
           /\ events' = events \o result.events
           /\ buffer' = result.remainder
    /\ pos' = pos + k
    /\ UNCHANGED <<text, panelVars, callVars, optVars>>

DecoderNext == \E k \in 1..Len(text) : Feed(k)

DecoderSpec == DecoderInit /\ [][DecoderNext]_vars

(***************************************************************************)
(* ChatPanel: the handlers and the steps of sendMessage.                   *)
(***************************************************************************)
\* what the user types into the composer
Inputs == { <<" ", "q">> }

\* what one reader.read() can deliver
Chunks ==
    { <<DATA, JREASON, NL, NL>>,                 \* reasoning " Hm "
      <<DATA, SP, JWS, NL, NL,                   \* content " \n",
        DATA, JREASON, NL, NL>>,                 \*   then reasoning again
      <<DATA, SP, JOPEN>>,                       \* the start of a frame
      <<JCLOSE, NL, NL, DATA, DONE, NL, NL,      \* its end, then [DONE],
        DATA, JWS, NL, NL>>,                     \*   then content " \n"
      <<DATA, JBOTH, NL, NL>>,                   \* content and reasoning
      <<DATA, JOPEN, JCLOSE, NL, NL,             \* content "Hi",
        DATA, BAD, NL, NL,                       \*   an unparseable payload,
        DATA, JREASON, NL, NL>> }                \*   then reasoning

canSend == ~isStreaming /\ (Len(trim(input)) > 0 \/ Len(attachments) > 0)

Live(r) == requests[r].pc \in {"fetch", "text", "read"}

\* onValueChange
TypeInput(v) ==
    /\ input # v
    /\ input' = v
    /\ UNCHANGED <<decVars, callVars, optVars, messages, attachments, isStreaming, abortRef,
                   requests, nextId, now, chunksRead, ticks>>

\* handleSubmit and sendMessage up to the await of fetch
Submit(r) ==
    /\ canSend
    /\ requests[r].pc = "idle"
    /\ \A q \in Requests : q < r => requests[q].pc # "idle"
    /\ LET trimmed == trim(input)
           userMessage == createUserMessage(nextId + 1, trimmed, attachments)
           placeholder == createPlaceholderMessage(nextId + 2)
       IN  /\ messages' = messages \o <<userMessage, placeholder>>
           /\ requests' = [requests EXCEPT ![r] =
                  [IdleRequest EXCEPT !.pc = "fetch", !.placeholder = placeholder.id]]
    /\ nextId' = nextId + 2
    /\ input' = <<>>
    /\ attachments' = <<>>
    /\ isStreaming' = TRUE
    /\ abortRef' = Some(r)
    /\ UNCHANGED <<decVars, callVars, optVars, now, chunksRead, ticks>>

\* the catch block without the finally block behind it
CatchNoFinally(r, list, fallback) ==
    /\ messages' = updateMessageById(list, requests[r].placeholder,
                        [m \in Messages(list) |-> failMessage(m, fallback)])
    /\ UNCHANGED <<isStreaming, abortRef>>
    /\ requests' = [requests EXCEPT
           ![r].pc = "done", ![r].outcome = "failed", ![r].error = Some(fallback)]

\* CatchFinally writing the failure into the newest message of the list
CatchFinallyNewest(r, list, fallback) ==
    /\ messages' = updateMessageById(list, Len(list),
                        [m \in Messages(list) |-> failMessage(m, fallback)])
    /\ isStreaming' = FALSE
    /\ abortRef' = None
    /\ requests' = [requests EXCEPT
           ![r].pc = "done", ![r].outcome = "failed", ![r].error = Some(fallback)]

\* catch and finally, on the message list `list`
CatchFinally(r, list, fallback) ==
    /\ messages' = updateMessageById(list, requests[r].placeholder,
                        [m \in Messages(list) |-> failMessage(m, fallback)])
    /\ isStreaming' = FALSE
    /\ abortRef' = None
    /\ requests' = [requests EXCEPT
           ![r].pc = "done", ![r].outcome = "failed", ![r].error = Some(fallback)]

\* fetch resolves with an ok response that has a body
FetchOk(r) ==
    /\ requests[r].pc = "fetch"
    /\ ~requests[r].aborted
    /\ requests' = [requests EXCEPT ![r].pc = "read"]
    /\ UNCHANGED <<decVars, callVars, optVars, messages, input, attachments, isStreaming, abortRef,
                   nextId, now, chunksRead, ticks>>

\* fetch resolves with a non-success response: await response.text()
FetchNotOk(r) ==
    /\ requests[r].pc = "fetch"
    /\ ~requests[r].aborted
    /\ requests' = [requests EXCEPT ![r].pc = "text"]
    /\ UNCHANGED <<decVars, callVars, optVars, messages, input, attachments, isStreaming, abortRef,
                   nextId, now, chunksRead, ticks>>

\* response.text() resolves: throw new Error(errorText || "The assistant ...")
ErrorTextRead(r, errorText) ==
    /\ requests[r].pc = "text"
    /\ ~requests[r].aborted
    /\ CatchFinally(r, messages,
                    IF errorText # "" THEN errorText ELSE NO_RESPONSE_ERROR)
    /\ UNCHANGED <<decVars, callVars, optVars, input, attachments, nextId, now, chunksRead, ticks>>

\* fetch or reader.read() rejects: the network failed
TransportReject(r) ==
    /\ requests[r].pc \in {"fetch", "read"}
    /\ ~requests[r].aborted
    /\ CatchFinally(r, messages, NETWORK_ERROR)
    /\ UNCHANGED <<decVars, callVars, optVars, input, attachments, nextId, now, chunksRead, ticks>>

\* the pending await of an aborted request rejects with the AbortError
AbortReject(r) ==
    /\ Live(r)
    /\ requests[r].aborted
    /\ CatchFinally(r, messages, ABORT_ERROR)
    /\ UNCHANGED <<decVars, callVars, optVars, input, attachments, nextId, now, chunksRead, ticks>>

\* reader.read() delivers a chunk: decode it and fold its events
ReadChunk(r, c) ==
    /\ requests[r].pc = "read"
    /\ ~requests[r].aborted
    /\ chunksRead < MaxChunks
    /\ chunksRead' = chunksRead + 1
    /\ LET decoded == extractEventsFromBuffer(requests[r].buffer \o c)
           folded == foldEvents(messages, requests[r].placeholder,
                                decoded.events, decoded.remainder, now)
       IN  IF IsSome(folded.thrown)
           THEN CatchFinally(r, folded.messages, Val(folded.thrown))
           ELSE /\ messages' = folded.messages
                /\ requests' = [requests EXCEPT ![r].buffer = folded.buffer]
                /\ UNCHANGED <<isStreaming, abortRef>>
    /\ UNCHANGED <<decVars, callVars, optVars, input, attachments, nextId, now, ticks>>

\* ReadDone without the break: the loop goes on reading
ReadDoneNoBreak(r) ==
    /\ requests[r].pc = "read"
    /\ ~requests[r].aborted
    /\ messages' = updateMessageById(messages, requests[r].placeholder,
                        [m \in Messages(messages) |-> finalizeMessage(m, now)])
    /\ isStreaming' = FALSE
    /\ abortRef' = None
    /\ requests' = [requests EXCEPT ![r].outcome = "ended"]
    /\ UNCHANGED <<decVars, callVars, optVars, input, attachments, nextId, now, chunksRead, ticks>>

\* reader.read() reports done: finalize, break, finally
ReadDone(r) ==
    /\ requests[r].pc = "read"
    /\ ~requests[r].aborted
    /\ messages' = updateMessageById(messages, requests[r].placeholder,
                        [m \in Messages(messages) |-> finalizeMessage(m, now)])
    /\ isStreaming' = FALSE
    /\ abortRef' = None
    /\ requests' = [requests EXCEPT ![r].pc = "done", ![r].outcome = "ended"]
    /\ UNCHANGED <<decVars, callVars, optVars, input, attachments, nextId, now, chunksRead, ticks>>

\* handleStop that only aborts and leaves the flag and the handle to the
\* request's finally block
StopDeferred ==
    /\ isStreaming
    /\ \E r \in Requests : abortRef = Some(r) /\ Live(r) /\ ~requests[r].aborted
    /\ requests' = [r \in Requests |->
           IF abortRef = Some(r) /\ Live(r)
           THEN [requests[r] EXCEPT !.aborted = TRUE] ELSE requests[r]]
    /\ UNCHANGED <<decVars, callVars, optVars, messages, input, attachments, nextId, now,
                   chunksRead, ticks, isStreaming, abortRef>>

\* handleStop (the Stop button is rendered while isStreaming)
Stop ==
    /\ isStreaming
    /\ requests' = [r \in Requests |->
           IF abortRef = Some(r) /\ Live(r)
           THEN [requests[r] EXCEPT !.aborted = TRUE] ELSE requests[r]]
    /\ abortRef' = None
    /\ isStreaming' = FALSE
    /\ UNCHANGED <<decVars, callVars, optVars, messages, input, attachments, nextId, now,
                   chunksRead, ticks>>

\* time passes
Tick ==
    /\ ticks < MaxTicks
    /\ ticks' = ticks + 1
    /\ now' = now + TickMs
    /\ UNCHANGED <<decVars, callVars, optVars, messages, input, attachments, isStreaming, abortRef,
                   requests, nextId, chunksRead>>

Init ==
    /\ text = <<>>
    /\ DecIdle
    /\ PanelInit
    /\ CallIdle

Next ==
    \/ \E v \in Inputs : TypeInput(v)
    \/ \E r \in Requests : Submit(r)
    \/ \E r \in Requests : FetchOk(r)
    \/ \E r \in Requests : FetchNotOk(r)
    \/ \E r \in Requests : \E e \in {"", SERVER_ERROR} : ErrorTextRead(r, e)
    \/ \E r \in Requests : TransportReject(r)
    \/ \E r \in Requests : AbortReject(r)
    \/ \E r \in Requests : \E c \in Chunks : ReadChunk(r, c)
    \/ \E r \in Requests : ReadDone(r)
    \/ Stop
    \/ Tick

Spec == Init /\ [][Next]_vars

\* the steps that end the invocation of request r: its stream closes, or the
\* await it is suspended at rejects or yields an error
Finish(r) ==
    \/ ReadDone(r)
    \/ TransportReject(r)
    \/ AbortReject(r)
    \/ \E e \in {"", SERVER_ERROR} : ErrorTextRead(r, e)

\* the session within the bounds of the liveness check
LiveBound ==
    /\ chunksRead <= LiveChunks
    /\ \A r \in Requests : r > LiveSends => requests[r].pc = "idle"

LiveNext == Next /\ LiveBound'

\* Every pending network operation settles and every stream ends: an
\* invocation of sendMessage that can finish does finish.
FairSpec ==
    Init /\ [][LiveNext]_vars /\ \A r \in Requests : WF_vars(Finish(r))

(***************************************************************************)
(* Calls of updateMessageById: a list of up to MaxList messages with       *)
(* distinct ids, an id that is in the list or not, and one of the updaters *)
(* of sendMessage.                                                         *)
(***************************************************************************)
ListIds == 1..MaxList

\* an assistant message as the folds leave it
StoredMessage(id, content) ==
    [createPlaceholderMessage(id) EXCEPT
        !.content = content,
        !.reasoning = Some(<<" ", "H", "m", " ">>),
        !.reasoningStartedAt = Some(Epoch),
        !.reasoningStoppedAt = Some(Epoch),
        !.isReasoningStreaming = content = <<>>]

RECURSIVE ListsUpTo(_)
ListsUpTo(n) ==
    IF n = 0 THEN {<<>>}
    ELSE LET shorter == ListsUpTo(n - 1)
         IN  shorter \cup
             { Append(l, StoredMessage(id, content)) :
                 l \in {k \in shorter : Len(k) = n - 1},
                 id \in ListIds, content \in {<<>>, <<"H", "i", " ">>} }

DistinctIds(list) ==
    \A i, j \in 1..Len(list) : list[i].id = list[j].id => i = j

Updaters == {"delta", "finalize", "fail"}

\* the updater functions sendMessage passes
UpdaterOf(kind, list) ==
    [m \in Messages(list) |->
        CASE kind = "delta" -> foldDelta(m, Some(<<"o", "k">>), None, now)
          [] kind = "finalize" -> finalizeMessage(m, now)
          [] OTHER -> failMessage(m, NETWORK_ERROR)]

UpdateInit ==
    /\ text = <<>>
    /\ DecIdle
    /\ PanelInit
    /\ returned = NoCall
    /\ OptIdle
    /\ \E list \in ListsUpTo(MaxList) : \E id \in 1..(MaxList + 1) :
          \E kind \in Updaters :
            /\ DistinctIds(list)
            /\ args = [fn |-> "updateMessageById", heap |-> <<list>>, ref |-> 1,
                       id |-> id, updater |-> kind]

CallUpdate ==
    /\ args.fn = "updateMessageById"
    /\ returned = NoCall
    /\ LET call == updateMessageByIdCall(args.heap, args.ref, args.id,
                        UpdaterOf(args.updater, args.heap[args.ref]))
       IN  returned' = [fn |-> "updateMessageById", heap |-> call.heap,
                        ret |-> call.ret, calls |-> call.calls]
    /\ UNCHANGED <<decVars, panelVars, optVars, args>>

UpdateNext == CallUpdate

UpdateSpec == UpdateInit /\ [][UpdateNext]_vars

(***************************************************************************)
(* Calls of the frame decoder on one frame: the body of the try block on a *)
(* parsed payload built from a content, a reasoning and a reasoning_details *)
(* value put where the decoder looks for them, and one loop iteration on a *)
(* segment of text.                                                        *)
(***************************************************************************)
ContentValues ==
    { JUndef, JNull, JStr(<<>>), JStr(<<"H", "i">>),
      JArr(<<>>),
      JArr(<<JObj("text" :> JStr(<<"H">>)), JStr(<<"i">>)>>),
      JObj("text" :> JStr(<<>>)),
      JObj("content" :> JStr(<<"o", "k">>)) }

ReasoningValues ==
    { JUndef, JNull, JStr(<<>>), JStr(<<"s", "o">>),
      JObj("summary" :> JStr(<<"s", "o">>)) }

DetailValues ==
    { JUndef, JArr(<<>>),
      JArr(<<JObj("text" :> JStr(<<"s", "o">>))>>),
      JArr(<<JObj("summary" :> JStr(<<>>))>>),
      JArr(<<JObj("data" :> JStr(<<"x">>)), JObj("text" :> JStr(<<"y">>))>>) }

\* where the fields sit in the payload; "split" has the reasoning fields
\* under choices[0].delta and the content under choices[0].message
Places == {"choice.delta", "choice.message", "delta", "message", "split"}

\* an object with the fields that are defined
ObjOf(c, r, d) ==
    LET v == [content |-> c, reasoning |-> r, reasoning_details |-> d]
    IN  JObj([k \in {f \in DOMAIN v : v[f].t # "undef"} |-> v[k]])

Frame(place, c, r, d) ==
    CASE place = "choice.delta" ->
            JObj("choices" :> JArr(<<JObj("delta" :> ObjOf(c, r, d))>>))
      [] place = "choice.message" ->
            JObj("choices" :> JArr(<<JObj("message" :> ObjOf(c, r, d))>>))
      [] place = "delta" -> JObj("delta" :> ObjOf(c, r, d))
      [] place = "message" -> JObj("message" :> ObjOf(c, r, d))
      [] OTHER ->
            JObj("choices" :>
                JArr(<<JObj(("delta" :> ObjOf(JUndef, r, d))
                            @@ ("message" :> ObjOf(c, JUndef, JUndef)))>>))

\* segments between two blank lines
Segments ==
    { <<DATA, SP, JOPEN, JCLOSE>>,
      <<DATA, JBOTH>>,
      <<DATA, JEMPTY>>,
      <<DATA, DONE, SP>>,
      <<DATA, BAD>>,
      <<CMT>>,
      <<CMT, NL, DATA, JREASON>>,
      <<DATA, JWS, NL, DATA, DONE>>,
      <<DATA, SP>> }

\* the fields the extraction looks at
ExtractFields == {"text", "summary", "data", "content"}

\* JSON-like values nested up to n deep: strings, arrays of up to two values
\* and records with one or two of the fields
RECURSIVE JsonValues(_)
JsonValues(n) ==
    IF n = 0 THEN {JStr(<<>>), JStr(<<"a">>), JStr(<<"b">>)}
    ELSE LET inner == JsonValues(n - 1)
             flat == JsonValues(0)
         IN  inner
             \cup {JArr(<<>>)}
             \cup {JArr(<<x>>) : x \in inner}
             \cup {JArr(<<x, y>>) : x \in inner, y \in flat}
             \cup {JObj(f :> x) : f \in ExtractFields, x \in inner}
             \cup {JObj((fg[1] :> x) @@ (fg[2] :> y)) :
                      fg \in {p \in ExtractFields \X ExtractFields : p[1] # p[2]},
                      x \in flat, y \in flat}

ParseInit ==
    /\ text = <<>>
    /\ DecIdle
    /\ PanelInit
    /\ returned = NoCall
    /\ OptIdle
    /\ \/ \E place \in Places : \E c \in ContentValues :
            \E r \in ReasoningValues : \E d \in DetailValues :
                args = [fn |-> "parsedEvents", place |-> place, content |-> c,
                        reasoning |-> r, reasoning_details |-> d,
                        parsed |-> Frame(place, c, r, d)]
       \/ \E segment \in Segments :
                args = [fn |-> "segmentEvents", segment |-> segment]
       \/ \E fn \in {"extractTextFromContent", "extractReasoningText"} :
            \E source \in JsonValues(MaxDepth) :
                args = [fn |-> fn, source |-> source]

CallParsed ==
    /\ args.fn = "parsedEvents"
    /\ returned = NoCall
    /\ returned' = [fn |-> "parsedEvents", events |-> parsedEvents(args.parsed)]
    /\ UNCHANGED <<decVars, panelVars, optVars, args>>

CallSegment ==
    /\ args.fn = "segmentEvents"
    /\ returned = NoCall
    /\ returned' = [fn |-> "segmentEvents", events |-> segmentEvents(args.segment)]
    /\ UNCHANGED <<decVars, panelVars, optVars, args>>

CallExtract ==
    /\ args.fn \in {"extractTextFromContent", "extractReasoningText"}
    /\ returned = NoCall
    /\ returned' =
          [fn |-> args.fn,
           text |-> IF args.fn = "extractTextFromContent"
                    THEN extractTextFromContent(args.source)
                    ELSE extractReasoningText(args.source)]
    /\ UNCHANGED <<decVars, panelVars, optVars, args>>

ParseNext == CallParsed \/ CallSegment \/ CallExtract

ParseSpec == ParseInit /\ [][ParseNext]_vars

(***************************************************************************)
(* Image attachments: the optimizer's limits, sizes in bytes, qualities    *)
(* and the downscale step in hundredths.                                   *)
(***************************************************************************)
COMPRESS_THRESHOLD_BYTES == 921600
MAX_BASE64_ATTACHMENT_BYTES == 1572864
MAX_ATTACHMENT_EDGE == 1600
MIN_ATTACHMENT_EDGE == 512
DEFAULT_JPEG_QUALITY == 85
MIN_JPEG_QUALITY == 55
DOWNSCALE_STEP == 85

RECURSIVE Gcd(_, _)
Gcd(a, b) == IF b = 0 THEN a ELSE Gcd(b, a % b)

\* a scale factor is the exact fraction num / den, in lowest terms
Scale(n, d) == [num |-> n \div Gcd(n, d), den |-> d \div Gcd(n, d)]
One == Scale(1, 1)
ScaleLess(a, b) == a.num * b.den < b.num * a.den
\* Math.min and Math.max on two scale factors
ScaleMin(a, b) == IF ScaleLess(b, a) THEN b ELSE a
ScaleMax(a, b) == IF ScaleLess(a, b) THEN b ELSE a

\* Math.min(1, edge / Math.max(originalWidth, originalHeight))
edgeScale(edge, originalWidth, originalHeight) ==
    ScaleMin(One, Scale(edge, Max(originalWidth, originalHeight)))

\* Number((currentScale * DOWNSCALE_STEP).toFixed(4)): the nearest multiple
\* of 0.0001
downscaled(s) ==
    Scale((2 * s.num * DOWNSCALE_STEP * 100 + s.den) \div (2 * s.den), 10000)

\* The values Number((currentScale * DOWNSCALE_STEP).toFixed(4)) can have:
\* where the exact product lies halfway between two multiples of 0.0001, the
\* double product lies just above or just below it and rounds either way
\* (0.289 * 0.85 gives 0.2456).
downscaledValues(s) ==
    LET twice == 2 * s.num * DOWNSCALE_STEP * 100
    IN  IF (twice + s.den) % (2 * s.den) = 0
        THEN {downscaled(s), Scale((twice + s.den) \div (2 * s.den) - 1, 10000)}
        ELSE {downscaled(s)}

\* Math.max(Math.round(original * currentScale), 1), the common factor of
\* original and den taken out before multiplying
scaledEdge(original, s) ==
    LET common == Gcd(original, s.den)
        n == (original \div common) * s.num
        d == s.den \div common
    IN  Max((2 * n + d) \div (2 * d), 1)

\* Math.max(MIN_JPEG_QUALITY, Number((quality - 0.1).toFixed(2)))
lowered(quality) == Max(MIN_JPEG_QUALITY, quality - 10)

\* A data URL: the media type, what the payload encodes, and the length and
\* the padding of its base64 text.
FileBody == [src |-> "file", width |-> 0, height |-> 0, quality |-> 0]
CanvasBody(w, h, q) == [src |-> "canvas", width |-> w, height |-> h, quality |-> q]
NoUrl == [mime |-> "", body |-> FileBody, len |-> 0, pad |-> 0]

\* FileReader.readAsDataURL on the file's bytes
readFileAsDataURL(f) ==
    [ mime |-> f.type, body |-> FileBody,
      len |-> 4 * ((f.size + 2) \div 3), pad |-> (3 - (f.size % 3)) % 3 ]

\* canvas.toDataURL("image/jpeg", quality) on a canvas of the given size, the
\* encoder producing the given base64 text
render(w, h, q, encoded) ==
    [ mime |-> "image/jpeg", body |-> CanvasBody(w, h, q),
      len |-> encoded.len, pad |-> encoded.pad ]

\* estimateBase64Size that does not take the padding off
estimateBase64SizeUnpadded(dataUrl) ==
    IF dataUrl.len = 0 THEN 0
    ELSE Max(0, (dataUrl.len * 3) \div 4)

\* the estimate from base64.length and the padding
estimateBase64Size(dataUrl) ==
    IF dataUrl.len = 0 THEN 0
    ELSE Max(0, (dataUrl.len * 3) \div 4 - dataUrl.pad)

\* (MAX_BASE64_ATTACHMENT_BYTES / 1024 / 1024).toFixed(1)
maxMb ==
    LET tenths == (2 * 10 * MAX_BASE64_ATTACHMENT_BYTES + 1048576) \div (2 * 1048576)
    IN  <<ToString(tenths \div 10), ".", ToString(tenths % 10)>>

READ_ERROR == <<"Unable to read attachment.">>
DECODE_ERROR == <<"Unable to decode the selected image.">>
CONTEXT_ERROR == <<"Image compression is not supported in this browser.">>
DIMENSIONS_ERROR == <<"We couldn't read the image dimensions.">>
compressError(f) ==
    <<"We couldn't compress ">> \o f.name \o <<" below ">> \o maxMb
        \o <<" MB. Try a smaller image.">>
tooLargeError(f) ==
    f.name \o <<" is too large to send. Please choose an image under ">> \o maxMb
        \o <<" MB after compression.">>

\* file.name.replace(/\.[^/.]+$/, "") and the name of the compressed file
Extensions == {".png", ".jpeg"}
baseName(name) ==
    IF name # <<>> /\ name[Len(name)] \in Extensions
    THEN Take(name, Len(name) - 1) ELSE name
jpgName(name) ==
    IF Len(baseName(name)) > 0 THEN Append(baseName(name), ".jpg")
    ELSE Append(name, ".jpg")

needsCompression(f) ==
    f.type # "image/jpeg" \/ f.size > COMPRESS_THRESHOLD_BYTES

Attachment(dataUrl, size, type, name) ==
    [dataUrl |-> dataUrl, size |-> size, type |-> type, name |-> name]

(***************************************************************************)
(* prepareImageAttachment on one file. The steps are the settlements of    *)
(* its awaits and the iterations of the compression loop; the file reader, *)
(* the image decoder and the JPEG encoder are the environment.             *)
(* Object URLs are numbered in the order URL.createObjectURL hands them    *)
(* out: opt.revokes[u] is the number of URL.revokeObjectURL calls on u,    *)
(* opt.url the url of the loadImageFromFile call that is pending.          *)
(***************************************************************************)
FileNames == {<<"cat", ".png">>, <<".png">>}
FileTypes == {"image/jpeg", "image/png"}
FileSizes == {409600, 921600, 921601, 1572864, 1572865, 10485760}
\* natural width and height; on these, doubles and exact fractions give the
\* same scales and the same canvas sizes, except for the one halfway case of
\* 4000 x 3000 that downscaledValues covers
Dimensions ==
    { <<0, 0>>, <<400, 300>>, <<640, 480>>, <<4000, 3000>>, <<8000, 6000>>,
      <<20000000, 20000000>> }
Files ==
    { [name |-> n, type |-> t, size |-> s, width |-> d[1], height |-> d[2]] :
        n \in FileNames, t \in FileTypes, s \in FileSizes, d \in Dimensions }

\* base64 texts the encoder may produce: 1025 bytes, the ceiling exactly and
\* one byte more
Encodings ==
    { [len |-> 1368, pad |-> 1], [len |-> 2097152, pad |-> 0],
      [len |-> 2097156, pad |-> 2] }
DecodeOutcomes == {"decoded", "undecodable", "no-context"}

StartOpt ==
    [ pc |-> "start", path |-> "none", dataUrl |-> NoUrl, size |-> 0,
      quality |-> DEFAULT_JPEG_QUALITY, currentScale |-> One, minScale |-> One,
      initialScale |-> One, width |-> 0, height |-> 0,
      iterations |-> 0, reads |-> 0, decodes |-> 0, renders |-> 0,
      caught |-> None, result |-> None, error |-> None,
      url |-> 0, revokes |-> <<>>, calls |-> 1 ]

OptimizerInit ==
    /\ text = <<>>
    /\ DecIdle
    /\ PanelInit
    /\ args = NoCall
    /\ returned = NoCall
    /\ file \in Files
    /\ opt = StartOpt
    /\ selections = [s \in Selections |-> IdleSelection]

\* FastRead that sends every file it has read on to compression
FastReadCompress(ok) ==
    /\ opt.pc = "start"
    /\ ~needsCompression(file)
    /\ LET dataUrl == readFileAsDataURL(file)
           size == estimateBase64Size(dataUrl)
       IN  opt' =
             IF ~ok
             THEN [opt EXCEPT !.pc = "fallback", !.path = "fast",
                              !.reads = @ + 1, !.caught = Some(READ_ERROR)]
             ELSE [opt EXCEPT !.pc = "load", !.path = "fast", !.reads = @ + 1,
                              !.dataUrl = dataUrl, !.size = size]
    /\ UNCHANGED <<decVars, panelVars, callVars, file, selections>>

\* the fast path: the read of a small JPEG settles
FastRead(ok) ==
    /\ opt.pc = "start"
    /\ ~needsCompression(file)
    /\ LET dataUrl == readFileAsDataURL(file)
           size == estimateBase64Size(dataUrl)
       IN  opt' =
             IF ~ok
             THEN [opt EXCEPT !.pc = "fallback", !.path = "fast",
                              !.reads = @ + 1, !.caught = Some(READ_ERROR)]
             ELSE IF size <= MAX_BASE64_ATTACHMENT_BYTES
             THEN [opt EXCEPT !.pc = "returned", !.path = "fast", !.reads = @ + 1,
                              !.dataUrl = dataUrl, !.size = size,
                              !.result = Some(Attachment(dataUrl, size, file.type,
                                                         file.name))]
             ELSE [opt EXCEPT !.pc = "load", !.path = "fast", !.reads = @ + 1,
                              !.dataUrl = dataUrl, !.size = size]
    /\ UNCHANGED <<decVars, panelVars, callVars, file, selections>>

\* the executor of loadImageFromFile: URL.createObjectURL(file), the handlers
\* are set and image.src = url starts the decode
CreateUrl ==
    /\ \/ opt.pc = "start" /\ needsCompression(file)
       \/ opt.pc = "load"
    /\ opt' = [opt EXCEPT !.pc = "decoding", !.url = Len(opt.revokes) + 1,
                          !.revokes = Append(@, 0)]
    /\ UNCHANGED <<decVars, panelVars, callVars, file, selections>>

\* Load whose error handler rejects without releasing the url
LoadLeaky(outcome, encoded) ==
    /\ opt.pc = "decoding"
    /\ LET initial == edgeScale(MAX_ATTACHMENT_EDGE, file.width, file.height)
           currentScale == IF initial.num <= 0 THEN One ELSE initial
           minScale == edgeScale(MIN_ATTACHMENT_EDGE, file.width, file.height)
           width == scaledEdge(file.width, currentScale)
           height == scaledEdge(file.height, currentScale)
           dataUrl == render(width, height, DEFAULT_JPEG_QUALITY, encoded)
           thrown ==
               IF outcome = "undecodable" THEN Some(DECODE_ERROR)
               ELSE IF outcome = "no-context" THEN Some(CONTEXT_ERROR)
               ELSE IF file.width = 0 \/ file.height = 0 THEN Some(DIMENSIONS_ERROR)
               ELSE None
       IN  opt' =
             IF IsSome(thrown)
             THEN [opt EXCEPT !.pc = "fallback", !.path = "compress",
                              !.decodes = @ + 1, !.caught = thrown,
                              !.revokes[opt.url] =
                                  IF outcome = "undecodable" THEN @ ELSE @ + 1,
                              !.url = 0]
             ELSE [opt EXCEPT !.pc = "loop", !.path = "compress",
                              !.decodes = @ + 1, !.renders = @ + 1,
                              !.revokes[opt.url] = @ + 1, !.url = 0,
                              !.quality = DEFAULT_JPEG_QUALITY,
                              !.currentScale = currentScale,
                              !.initialScale = currentScale,
                              !.minScale = minScale,
                              !.width = width, !.height = height,
                              !.dataUrl = dataUrl,
                              !.size = estimateBase64Size(dataUrl)]
    /\ UNCHANGED <<decVars, panelVars, callVars, file, selections>>

\* compressImageFile up to the loop: the image's load or error event fires
\* and its handler releases the url, the scales are computed and the first
\* render is measured
Load(outcome, encoded) ==
    /\ opt.pc = "decoding"
    /\ LET initial == edgeScale(MAX_ATTACHMENT_EDGE, file.width, file.height)
           currentScale == IF initial.num <= 0 THEN One ELSE initial
           minScale == edgeScale(MIN_ATTACHMENT_EDGE, file.width, file.height)
           width == scaledEdge(file.width, currentScale)
           height == scaledEdge(file.height, currentScale)
           dataUrl == render(width, height, DEFAULT_JPEG_QUALITY, encoded)
           thrown ==
               IF outcome = "undecodable" THEN Some(DECODE_ERROR)
               ELSE IF outcome = "no-context" THEN Some(CONTEXT_ERROR)
               ELSE IF file.width = 0 \/ file.height = 0 THEN Some(DIMENSIONS_ERROR)
               ELSE None
       IN  opt' =
             IF IsSome(thrown)
             THEN [opt EXCEPT !.pc = "fallback", !.path = "compress",
                              !.decodes = @ + 1, !.caught = thrown,
                              !.revokes[opt.url] = @ + 1, !.url = 0]
             ELSE [opt EXCEPT !.pc = "loop", !.path = "compress",
                              !.decodes = @ + 1, !.renders = @ + 1,
                              !.revokes[opt.url] = @ + 1, !.url = 0,
                              !.quality = DEFAULT_JPEG_QUALITY,
                              !.currentScale = currentScale,
                              !.initialScale = currentScale,
                              !.minScale = minScale,
                              !.width = width, !.height = height,
                              !.dataUrl = dataUrl,
                              !.size = estimateBase64Size(dataUrl)]
    /\ UNCHANGED <<decVars, panelVars, callVars, file, selections>>

\* the condition of the while loop
searching(o) ==
    /\ o.size > MAX_BASE64_ATTACHMENT_BYTES
    /\ \/ o.quality > MIN_JPEG_QUALITY
       \/ ScaleLess(o.minScale, o.currentScale)

\* one iteration of the loop
CompressStep(encoded) ==
    /\ opt.pc = "loop"
    /\ searching(opt)
    /\ opt.iterations < MaxIterations
    /\ \E stepped \in downscaledValues(opt.currentScale) :
       LET quality ==
               IF opt.quality > MIN_JPEG_QUALITY THEN lowered(opt.quality)
               ELSE opt.quality
           currentScale ==
               IF opt.quality > MIN_JPEG_QUALITY THEN opt.currentScale
               ELSE IF ScaleLess(opt.minScale, opt.currentScale)
                    THEN ScaleMax(stepped, opt.minScale)
                    ELSE opt.currentScale
           rescaled ==
               opt.quality <= MIN_JPEG_QUALITY
                   /\ ScaleLess(opt.minScale, opt.currentScale)
           width == IF rescaled THEN scaledEdge(file.width, currentScale)
                    ELSE opt.width
           height == IF rescaled THEN scaledEdge(file.height, currentScale)
                     ELSE opt.height
           dataUrl == render(width, height, quality, encoded)
       IN  opt' = [opt EXCEPT !.quality = quality, !.currentScale = currentScale,
                              !.width = width, !.height = height,
                              !.dataUrl = dataUrl,
                              !.size = estimateBase64Size(dataUrl),
                              !.iterations = @ + 1, !.renders = @ + 1]
    /\ UNCHANGED <<decVars, panelVars, callVars, file, selections>>

\* CompressEnd whose error is not caught: the call fails with it
CompressEndFails ==
    /\ opt.pc = "loop"
    /\ ~searching(opt)
    /\ opt' =
         IF opt.size > MAX_BASE64_ATTACHMENT_BYTES
         THEN [opt EXCEPT !.pc = "failed", !.caught = Some(compressError(file)),
                          !.error = Some(compressError(file))]
         ELSE [opt EXCEPT !.pc = "returned",
                          !.result = Some(Attachment(opt.dataUrl, opt.size,
                                                     "image/jpeg",
                                                     jpgName(file.name)))]
    /\ UNCHANGED <<decVars, panelVars, callVars, file, selections>>

\* the loop has ended: compressImageFile throws or returns
CompressEnd ==
    /\ opt.pc = "loop"
    /\ ~searching(opt)
    /\ opt' =
         IF opt.size > MAX_BASE64_ATTACHMENT_BYTES
         THEN [opt EXCEPT !.pc = "fallback", !.caught = Some(compressError(file))]
         ELSE [opt EXCEPT !.pc = "returned",
                          !.result = Some(Attachment(opt.dataUrl, opt.size,
                                                     "image/jpeg",
                                                     jpgName(file.name)))]
    /\ UNCHANGED <<decVars, panelVars, callVars, file, selections>>

\* Fallback that labels the original as a compressed JPEG
FallbackJpeg(ok) ==
    /\ opt.pc = "fallback"
    /\ LET dataUrl == readFileAsDataURL(file)
           size == estimateBase64Size(dataUrl)
       IN  opt' =
             IF ~ok
             THEN [opt EXCEPT !.pc = "failed", !.path = "fallback",
                              !.reads = @ + 1, !.error = Some(READ_ERROR)]
             ELSE IF size > MAX_BASE64_ATTACHMENT_BYTES
             THEN [opt EXCEPT !.pc = "failed", !.path = "fallback",
                              !.reads = @ + 1,
                              !.error = Some(tooLargeError(file))]
             ELSE [opt EXCEPT !.pc = "returned", !.path = "fallback",
                              !.reads = @ + 1,
                              !.result = Some(Attachment(dataUrl, size, "image/jpeg",
                                                         jpgName(file.name)))]
    /\ UNCHANGED <<decVars, panelVars, callVars, file, selections>>

\* Fallback that returns the original without measuring it
FallbackUnchecked(ok) ==
    /\ opt.pc = "fallback"
    /\ LET dataUrl == readFileAsDataURL(file)
           size == estimateBase64Size(dataUrl)
       IN  opt' =
             IF ~ok
             THEN [opt EXCEPT !.pc = "failed", !.path = "fallback",
                              !.reads = @ + 1, !.error = Some(READ_ERROR)]
             ELSE [opt EXCEPT !.pc = "returned", !.path = "fallback",
                              !.reads = @ + 1,
                              !.result = Some(Attachment(dataUrl, size, file.type,
                                                         file.name))]
    /\ UNCHANGED <<decVars, panelVars, callVars, file, selections>>

\* the catch block: the read of the original settles
Fallback(ok) ==
    /\ opt.pc = "fallback"
    /\ LET dataUrl == readFileAsDataURL(file)
           size == estimateBase64Size(dataUrl)
       IN  opt' =
             IF ~ok
             THEN [opt EXCEPT !.pc = "failed", !.path = "fallback",
                              !.reads = @ + 1, !.error = Some(READ_ERROR)]
             ELSE IF size > MAX_BASE64_ATTACHMENT_BYTES
             THEN [opt EXCEPT !.pc = "failed", !.path = "fallback",
                              !.reads = @ + 1,
                              !.error = Some(tooLargeError(file))]
             ELSE [opt EXCEPT !.pc = "returned", !.path = "fallback",
                              !.reads = @ + 1,
                              !.result = Some(Attachment(dataUrl, size, file.type,
                                                         file.name))]
    /\ UNCHANGED <<decVars, panelVars, callVars, file, selections>>

\* the loop over the valid files of a selection: the call has settled and
\* prepareImageAttachment is called on the next file
Again(f) ==
    /\ opt.pc \in {"returned", "failed"}
    /\ opt.calls < MaxCalls
    /\ file' = f
    /\ opt' = [StartOpt EXCEPT !.revokes = opt.revokes, !.calls = opt.calls + 1]
    /\ UNCHANGED <<decVars, panelVars, callVars, selections>>

OptimizerNext ==
    \/ \E ok \in BOOLEAN : FastRead(ok)
    \/ CreateUrl
    \/ \E outcome \in DecodeOutcomes : \E encoded \in Encodings :
          Load(outcome, encoded)
    \/ \E encoded \in Encodings : CompressStep(encoded)
    \/ CompressEnd
    \/ \E ok \in BOOLEAN : Fallback(ok)
    \/ \E f \in Files : Again(f)

OptimizerSpec == OptimizerInit /\ [][OptimizerNext]_vars

(***************************************************************************)
(* Calls of estimateBase64Size on the text of a data URL: the header, a    *)
(* comma, and the base64 characters of a payload of up to MaxPayload bytes. *)
(***************************************************************************)
MaxPayload == 40

\* n copies of the character c
Repeat(c, n) == [i \in 1..n |-> c]

\* the base64 text of a payload of L zero bytes: one character for every six
\* bits, padded with "=" to a multiple of four characters
base64(L) ==
    LET chars == (8 * L + 5) \div 6
        padding == (4 - (chars % 4)) % 4
    IN  Repeat("A", chars) \o Repeat("=", padding)

\* "data:<mime>;base64,<payload>"
dataUrlText(mime, payload) == <<"data:", mime, ";base64", ",">> \o payload

\* strings that are no data URL with an encoded part
BareUrls == {<<>>, <<"data:", "image/png">>, <<"data:", "image/png", ";base64", ",">>}

\* The data URL a string is: const [, base64 = ""] = dataUrl.split(","), with
\* the length of the encoded part and the padding its end shows
DataUrlOf(string) ==
    LET pieces == split(string, <<",">>)
        encoded == IF Len(pieces) >= 2 THEN pieces[2] ELSE <<>>
        padding == IF endsWith(encoded, <<"=", "=">>) THEN 2
                   ELSE IF endsWith(encoded, <<"=">>) THEN 1 ELSE 0
    IN  [ mime |-> IF Len(string) >= 2 THEN string[2] ELSE "",
          body |-> FileBody, len |-> Len(encoded), pad |-> padding ]

EstimateInit ==
    /\ text = <<>>
    /\ DecIdle
    /\ PanelInit
    /\ returned = NoCall
    /\ OptIdle
    /\ \/ \E L \in 0..MaxPayload : \E mime \in FileTypes :
            args = [fn |-> "estimateBase64Size", payload |-> Some(L),
                    dataUrl |-> dataUrlText(mime, base64(L))]
       \/ \E bare \in BareUrls :
            args = [fn |-> "estimateBase64Size", payload |-> None,
                    dataUrl |-> bare]

CallEstimate ==
    /\ args.fn = "estimateBase64Size"
    /\ returned = NoCall
    /\ returned' = [fn |-> "estimateBase64Size",
                    size |-> estimateBase64Size(DataUrlOf(args.dataUrl))]
    /\ UNCHANGED <<decVars, panelVars, optVars, args>>

EstimateNext == CallEstimate

EstimateSpec == EstimateInit /\ [][EstimateNext]_vars

(***************************************************************************)
(* Calls of mapMessageToApiContent (lib/chat/api) on one message: a        *)
(* content that is empty, blank or not, and no attachments, an empty       *)
(* attachment list, or up to MaxAttached attachments.                      *)
(***************************************************************************)
MaxAttached == 3

ATTACHMENT_ONLY_FALLBACK_TEXT ==
    <<"Please analyze the attached image(s) and describe what you see.">>

TextPart(t) == [type |-> "text", text |-> t]
ImagePart(url) == [type |-> "image_url", image_url |-> [url |-> url]]
\* the two shapes of the result: a string, or an array of parts
PlainContent(s) == [t |-> "string", s |-> s]
PartsContent(parts) == [t |-> "parts", parts |-> parts]

\* mapMessageToApiContent returning the parts of every message as an array
mapMessageToApiContentParts(message) ==
    LET content == message.content
        attached == IF IsSome(message.attachments) THEN Val(message.attachments)
                    ELSE <<>>
        textParts ==
            IF Len(trim(content)) > 0 THEN <<TextPart(content)>>
            ELSE IF Len(attached) > 0 THEN <<TextPart(ATTACHMENT_ONLY_FALLBACK_TEXT)>>
            ELSE <<>>
        parts == textParts \o [i \in 1..Len(attached) |-> ImagePart(attached[i].dataUrl)]
    IN  PartsContent(parts)

mapMessageToApiContent(message) ==
    LET content == message.content
        trimmedText == trim(content)
        \* message.attachments?.length
        attached == IF IsSome(message.attachments) THEN Val(message.attachments)
                    ELSE <<>>
        textParts ==
            IF Len(trimmedText) > 0 THEN <<TextPart(content)>>
            ELSE IF Len(attached) > 0 THEN <<TextPart(ATTACHMENT_ONLY_FALLBACK_TEXT)>>
            ELSE <<>>
        parts == textParts \o [i \in 1..Len(attached) |-> ImagePart(attached[i].dataUrl)]
    IN  IF Len(parts) = 0 THEN PlainContent(<<>>)
        ELSE IF Len(parts) = 1 /\ parts[1].type = "text"
             THEN PlainContent(parts[1].text)
             ELSE PartsContent(parts)

\* message contents: empty, blank, text, text with blanks around it
MessageContents == {<<>>, <<" ">>, <<" ", "\n">>, <<"H", "i">>, <<" ", "q", " ">>}

\* attachments the optimizer can have returned
ChatAttachments ==
    { [id |-> 0, name |-> <<"cat", ".png">>, size |-> 1, type |-> "image/png",
       dataUrl |-> dataUrlText("image/png", base64(1))],
      [id |-> 0, name |-> <<"cat", ".jpg">>, size |-> 2, type |-> "image/jpeg",
       dataUrl |-> dataUrlText("image/jpeg", base64(2))] }

RECURSIVE AttachmentLists(_)
AttachmentLists(n) ==
    IF n = 0 THEN {<<>>}
    ELSE LET shorter == AttachmentLists(n - 1)
         IN  shorter \cup {Append(l, a) : l \in shorter, a \in ChatAttachments}

\* a message with the given attachments field
MessageWith(content, attached) ==
    [createUserMessage(1, content, <<>>) EXCEPT !.attachments = attached]

ApiContentInit ==
    /\ text = <<>>
    /\ DecIdle
    /\ PanelInit
    /\ returned = NoCall
    /\ OptIdle
    /\ \E content \in MessageContents :
         \E attached \in {None} \cup {Some(l) : l \in AttachmentLists(MaxAttached)} :
            args = [fn |-> "mapMessageToApiContent",
                    message |-> MessageWith(content, attached)]

CallApiContent ==
    /\ args.fn = "mapMessageToApiContent"
    /\ returned = NoCall
    /\ returned' = [fn |-> "mapMessageToApiContent",
                    content |-> mapMessageToApiContent(args.message)]
    /\ UNCHANGED <<decVars, panelVars, optVars, args>>

ApiContentNext == CallApiContent

ApiContentSpec == ApiContentInit /\ [][ApiContentNext]_vars

(***************************************************************************)
(* The composer's pending attachments: handleAttachmentsSelect, whose      *)
(* invocations overlap at the awaits of prepareImageAttachment,            *)
(* handleAttachmentRemove, and sends that clear the list and end when the  *)
(* transport fails. The optimizer is the environment here: a call returns  *)
(* an attachment or throws.                                                *)
(***************************************************************************)
MAX_ATTACHMENTS == 4
MAX_FILE_SIZE_MB == 5
MAX_FILE_SIZE_BYTES == MAX_FILE_SIZE_MB * 1024 * 1024

\* file.type.startsWith("image/") on the types of the model
IsImageType(type) == type \in {"image/png", "image/jpeg"}

\* the files a picker can hand over: a JPEG of exactly 5 MB, a file that is
\* no image, and a PNG one byte over 5 MB
SelectableFiles ==
    { [name |-> <<"photo", ".jpeg">>, type |-> "image/jpeg",
       size |-> MAX_FILE_SIZE_BYTES],
      [name |-> <<"notes", ".txt">>, type |-> "text/plain", size |-> 409600],
      [name |-> <<"huge", ".png">>, type |-> "image/png",
       size |-> MAX_FILE_SIZE_BYTES + 1] }

RECURSIVE FileLists(_)
FileLists(n) ==
    IF n = 0 THEN {<<>>}
    ELSE LET shorter == FileLists(n - 1)
         IN  shorter \cup {Append(l, f) : l \in shorter, f \in SelectableFiles}

\* the first loop of handleAttachmentsSelect
isValidFile(f) == IsImageType(f.type) /\ f.size <= MAX_FILE_SIZE_BYTES
validFilesOf(fileList) == SelectSeq(fileList, isValidFile)

\* what prepareImageAttachment returns for a file when it returns: the
\* original of a JPEG that needs no compression, a JPEG render otherwise
optimizedOf(f) ==
    IF ~needsCompression(f)
    THEN Attachment(readFileAsDataURL(f), estimateBase64Size(readFileAsDataURL(f)),
                    f.type, f.name)
    ELSE LET dataUrl == render(MAX_ATTACHMENT_EDGE, MAX_ATTACHMENT_EDGE,
                               DEFAULT_JPEG_QUALITY, [len |-> 1368, pad |-> 1])
         IN  Attachment(dataUrl, estimateBase64Size(dataUrl), "image/jpeg",
                        jpgName(f.name))

\* { id: createId(), name, size, type, dataUrl }
ChatAttachmentOf(id, optimized) ==
    [ id |-> id, name |-> optimized.name, size |-> optimized.size,
      type |-> optimized.type, dataUrl |-> optimized.dataUrl ]

\* the updater handed to setAttachments without the limit on the slots
addAttachmentsUnbounded(prev, attachmentsToAdd) == prev \o attachmentsToAdd

\* the updater handed to setAttachments
addAttachments(prev, attachmentsToAdd) ==
    LET remainingSlots == Max(MAX_ATTACHMENTS - Len(prev), 0)
        allowed == Take(attachmentsToAdd,
                        IF Len(attachmentsToAdd) < remainingSlots
                        THEN Len(attachmentsToAdd) ELSE remainingSlots)
    IN  IF remainingSlots <= 0 THEN prev
        ELSE IF Len(allowed) = 0 THEN prev
        ELSE prev \o allowed

\* handleAttachmentsSelect up to its first await: the files are sorted into
\* valid and rejected ones and the optimizer is called on the first valid one
Select(s, fileList) ==
    /\ selections[s].pc = "idle"
    /\ \A q \in Selections : q < s => selections[q].pc # "idle"
    /\ LET validFiles == validFilesOf(fileList)
       IN  selections' = [selections EXCEPT ![s] =
             IF Len(fileList) = 0 \/ Len(validFiles) = 0
             THEN [IdleSelection EXCEPT !.pc = "done", !.fileList = fileList]
             ELSE [IdleSelection EXCEPT
                      !.pc = "optimizing", !.fileList = fileList,
                      !.validFiles = validFiles, !.index = 1,
                      !.invoked = <<validFiles[1]>>]]
    /\ UNCHANGED <<decVars, panelVars, callVars, file, opt>>

\* the pending prepareImageAttachment settles: its attachment is pushed or
\* its error is caught; the loop calls the optimizer on the next valid file
\* or, after the last one, the attachments are added to the list
Optimized(s, ok) ==
    /\ selections[s].pc = "optimizing"
    /\ LET sel == selections[s]
           current == sel.validFiles[sel.index]
           attachmentsToAdd ==
               IF ok THEN Append(sel.attachmentsToAdd,
                                 ChatAttachmentOf(nextId + 1, optimizedOf(current)))
               ELSE sel.attachmentsToAdd
       IN  /\ nextId' = IF ok THEN nextId + 1 ELSE nextId
           /\ IF sel.index < Len(sel.validFiles)
              THEN /\ selections' = [selections EXCEPT
                          ![s].attachmentsToAdd = attachmentsToAdd,
                          ![s].index = @ + 1,
                          ![s].invoked = Append(@, sel.validFiles[sel.index + 1])]
                   /\ UNCHANGED attachments
              ELSE /\ selections' = [selections EXCEPT
                          ![s].attachmentsToAdd = attachmentsToAdd,
                          ![s].pc = "done"]
                   /\ attachments' = addAttachments(attachments, attachmentsToAdd)
    /\ UNCHANGED <<decVars, callVars, file, opt, messages, input, isStreaming,
                   abortRef, requests, now, chunksRead, ticks>>

\* handleAttachmentRemove
Remove(id) ==
    /\ \E i \in 1..Len(attachments) : attachments[i].id = id
    /\ attachments' = SelectSeq(attachments, LAMBDA attachment : attachment.id # id)
    /\ UNCHANGED <<decVars, callVars, optVars, messages, input, isStreaming,
                   abortRef, requests, nextId, now, chunksRead, ticks>>

AttachInit ==
    /\ text = <<>>
    /\ DecIdle
    /\ PanelInit
    /\ CallIdle

AttachNext ==
    \/ \E s \in Selections : \E fileList \in FileLists(MaxFiles) : Select(s, fileList)
    \/ \E s \in Selections : \E ok \in BOOLEAN : Optimized(s, ok)
    \/ \E id \in 1..nextId : Remove(id)
    \/ \E r \in Requests : Submit(r)
    \/ \E r \in Requests : TransportReject(r)

AttachSpec == AttachInit /\ [][AttachNext]_vars

(***************************************************************************)
(* Helpers of the decoder claims.                                          *)
(***************************************************************************)
Contains(s, p) ==
    \E i \in 0..(Len(s) - Len(p)) : SubSeq(s, i + 1, i + Len(p)) = p

RECURSIVE StripNewlines(_)
StripNewlines(s) ==
    IF s # <<>> /\ Head(s) = NL THEN StripNewlines(Tail(s)) ELSE s

Received == Take(text, pos)
CallInput == prevBuffer \o lastChunk
\* the part of the last call's input in front of the remainder it returned
CallConsumed == Take(CallInput, Len(CallInput) - Len(buffer))
Called == Len(lastChunk) > 0

\* C1 (as claimed): chunk-by-chunk decoding gives the events AND the final
\* remainder of a single call on everything received.
C1_ChunkingEventsAndRemainder ==
    LET whole == extractEventsFromBuffer(Received)
    IN  events = whole.events /\ buffer = whole.remainder

\* C1 (amended): chunk-by-chunk decoding gives exactly the ordered event
\* sequence of a single call on everything received; the two remainders are
\* equal once leading newlines are dropped.
C1_ChunkingInvariance ==
    LET whole == extractEventsFromBuffer(Received)
    IN  /\ events = whole.events
        /\ StripNewlines(buffer) = StripNewlines(whole.remainder)

\* C1 witness: a text with three events has arrived in pieces, a frame having
\* been cut between two calls.
C1_Witness ==
    /\ pos = Len(text)
    /\ Len(events) = 3
    /\ prevBuffer # <<>>
    /\ Len(callEvents) >= 1
    /\ Len(callEvents) < Len(events)

\* the complete frames of the last call's input
CallFrames ==
    LET pieces == split(CallConsumed, DELIM)
    IN  IF CallConsumed = <<>> THEN <<>> ELSE Take(pieces, Len(pieces) - 1)

\* the events a frame produces when it is decoded on its own
Alone(frame) == extractEventsFromBuffer(frame \o DELIM).events

\* the trimmed payload of a frame's data line (empty when there is none)
Payload(frame) ==
    LET lines == split(frame, <<NL>>)
        hits == {i \in 1..Len(lines) : lines[i] # <<>> /\ lines[i][1] = DATA}
        first == CHOOSE i \in hits : \A j \in hits : i <= j
    IN  IF hits = {} THEN <<>> ELSE trim(Tail(lines[first]))

Unparseable(frame) ==
    /\ Payload(frame) # <<>>
    /\ Payload(frame) # <<DONE>>
    /\ JSONParse(Payload(frame)) = None

CountType(evs, type) == Cardinality({i \in 1..Len(evs) : evs[i].type = type})

\* C2: a buffer that does not end with the delimiter gives back, verbatim, its
\* text after the last delimiter (all of it when it holds none) and that text
\* produces no event; a buffer that ends with the delimiter leaves nothing.
C2_AntiFragmentation ==
    Called =>
        /\ endsWith(CallInput, DELIM) => buffer = <<>>
        /\ ~endsWith(CallInput, DELIM) =>
              /\ CallInput = CallConsumed \o buffer
              /\ ~Contains(buffer, DELIM)
              /\ CallConsumed = <<>> \/ endsWith(CallConsumed, DELIM)
              /\ callEvents = extractEventsFromBuffer(CallConsumed).events
        /\ ~Contains(CallInput, DELIM) => buffer = CallInput /\ callEvents = <<>>

\* C2 witness: a call whose input ended inside a data frame returned an event
\* for the frame before it and kept the partial frame.
C2_Witness ==
    /\ Called
    /\ Len(callEvents) = 1
    /\ Len(buffer) >= 2
    /\ buffer[1] = DATA
    /\ Contains(CallInput, DELIM)

\* C3: every complete frame of a call produces the events it produces on its
\* own, whatever its siblings are, and a frame with an unparseable payload
\* produces exactly one Error event.
C3_BadFrameIsLocal ==
    Called =>
        /\ callEvents = join([i \in 1..Len(CallFrames) |-> Alone(CallFrames[i])])
        /\ \A i \in 1..Len(CallFrames) :
              Unparseable(CallFrames[i]) =>
                  Alone(CallFrames[i]) = <<ErrorEvent(PARSE_ERROR)>>

\* C3 witness: one call decoded three frames, the middle one unparseable, the
\* frames before and after it giving their own events.
C3_Witness ==
    /\ Called
    /\ Len(CallFrames) = 3
    /\ Unparseable(CallFrames[2])
    /\ Len(callEvents) = 3
    /\ callEvents[1].type = "delta"
    /\ callEvents[2].type = "error"
    /\ callEvents[3].type = "done"

\* C4: a complete frame whose trimmed payload is exactly [DONE] yields one Done
\* event and nothing else; a payload in another case is not the sentinel, so
\* a call yields as many Done events as it has frames with payload [DONE].
C4_DoneSentinel ==
    Called =>
        /\ \A i \in 1..Len(CallFrames) :
              /\ Payload(CallFrames[i]) = <<DONE>> =>
                    Alone(CallFrames[i]) = <<DoneEvent>>
              /\ Payload(CallFrames[i]) = <<DONELC>> =>
                    CountType(Alone(CallFrames[i]), "done") = 0
        /\ CountType(callEvents, "done") =
              Cardinality({i \in 1..Len(CallFrames) : Payload(CallFrames[i]) = <<DONE>>})

\* C4 witness: one call decoded a [DONE] frame and a [done] frame.
C4_Witness ==
    /\ Called
    /\ \E i, j \in 1..Len(CallFrames) :
          /\ Payload(CallFrames[i]) = <<DONE>>
          /\ Payload(CallFrames[j]) = <<DONELC>>
    /\ CountType(callEvents, "done") = 1
    /\ CountType(callEvents, "error") = 1

(***************************************************************************)
(* Helpers of the session claims.                                          *)
(***************************************************************************)
\* the assistant message of request r (ids are handed out in list order)
PlaceholderOf(r) == messages[requests[r].placeholder]

\* the events one reader.read() of request r decodes from chunk c
DecodedBy(r, c) == extractEventsFromBuffer(requests[r].buffer \o c).events

\* the delta events the chunks of the model can carry
ChunkDeltas ==
    UNION { {e \in {extractEventsFromBuffer(c).events[k] :
                        k \in 1..Len(extractEventsFromBuffer(c).events)} :
                 e.type = "delta"} : c \in Chunks }

\* what finalization leaves of a message whose text was `before`
Finalized(m, before) ==
    /\ m.content = trimEnd(before.content)
    /\ m.reasoning =
          IF IsSome(before.reasoning) /\ trim(Val(before.reasoning)) # <<>>
          THEN Some(trim(Val(before.reasoning))) ELSE None
    /\ m.reasoningStartedAt = None
    /\ m.reasoningStoppedAt = None
    /\ m.isReasoningStreaming = FALSE

\* the record the catch block leaves for the error text `error`
FailureRecord(m, error) ==
    /\ m.content = <<FAILURE_MARK, error>>
    /\ m.reasoning = None
    /\ m.reasoningDurationSeconds = None
    /\ m.reasoningStartedAt = None
    /\ m.reasoningStoppedAt = None
    /\ m.isReasoningStreaming = FALSE

\* C5 (as claimed): once reasoningDurationSeconds is set on a message, no step
\* of the session (delta, Done, Error, stream end, transport failure) changes
\* or removes it.
C5_DurationNeverChanges ==
    [][\A i \in 1..Len(messages) :
          IsSome(messages[i].reasoningDurationSeconds) =>
              messages'[i].reasoningDurationSeconds =
                  messages[i].reasoningDurationSeconds]_vars

\* C5 (amended): once reasoningDurationSeconds is set, no folded delta
\* (reasoning or content), Done event or stream end changes or removes it;
\* the only step that touches it is the failure overwrite of the catch block,
\* which discards it.
C5_DurationFrozen ==
    [][\A i \in 1..Len(messages) :
          IsSome(messages[i].reasoningDurationSeconds) =>
              /\ \/ messages'[i].reasoningDurationSeconds =
                        messages[i].reasoningDurationSeconds
                 \/ /\ messages'[i].reasoningDurationSeconds = None
                    /\ \E r \in Requests :
                          /\ requests[r].placeholder = i
                          /\ requests[r].outcome # "failed"
                          /\ requests'[r].outcome = "failed"
              /\ \A e \in ChunkDeltas :
                    foldDelta(messages[i], e.content, e.reasoning, now)
                        .reasoningDurationSeconds =
                    messages[i].reasoningDurationSeconds
              /\ finalizeMessage(messages[i], now).reasoningDurationSeconds =
                    messages[i].reasoningDurationSeconds]_vars

\* C5 witness: a request still being read whose message has a frozen duration
\* of two seconds and is streaming reasoning again (reasoning arrived after
\* the reasoning-to-content handoff).
C5_Witness ==
    \E r \in Requests :
        /\ requests[r].pc = "read"
        /\ PlaceholderOf(r).reasoningDurationSeconds = Some(2)
        /\ PlaceholderOf(r).isReasoningStreaming
        /\ Len(PlaceholderOf(r).content) > 2

\* C6: after handleStop during a stream the placeholder of the cancelled
\* request is never modified again: neither the stop itself nor anything that
\* follows from it changes the message.
C6_CancelLeavesPlaceholder ==
    [][\A r \in Requests :
          (requests[r].pc = "read" /\ (requests[r].aborted \/ requests'[r].aborted)) =>
              messages'[requests[r].placeholder] = PlaceholderOf(r)]_vars

C8_DoneFinalizes ==
    [][\A r \in Requests : \A c \in Chunks :
          LET evs == DecodedBy(r, c)
              dones == {k \in 1..Len(evs) : evs[k].type = "done"}
              first == CHOOSE k \in dones : \A j \in dones : k <= j
              atDone == foldEvents(messages, requests[r].placeholder,
                                   Take(evs, first - 1), <<>>, now)
          IN  (ReadChunk(r, c) /\ dones # {} /\ ~IsSome(atDone.thrown)) =>
                  Finalized(messages'[requests[r].placeholder],
                            atDone.messages[requests[r].placeholder])]_vars

\* C9: a request that failed (Error event, network rejection, non-success
\* response) leaves its placeholder with the failure marker followed by the
\* error text as content, no reasoning, no duration, no timestamps and
\* isReasoningStreaming false, and the message stays that way.
C9_FailureOverwrite ==
    \A r \in Requests :
        requests[r].outcome = "failed" =>
            /\ requests[r].error \in
                  { Some(PARSE_ERROR), Some(NETWORK_ERROR), Some(SERVER_ERROR),
                    Some(NO_RESPONSE_ERROR), Some(ABORT_ERROR) }
            /\ FailureRecord(PlaceholderOf(r), Val(requests[r].error))

\* C9 witness: one request failed on an Error event that came behind a content
\* delta in the same read, another on a non-success response.
C9_Witness ==
    \E r, q \in Requests :
        /\ requests[r].outcome = "failed"
        /\ requests[r].error = Some(PARSE_ERROR)
        /\ requests[q].outcome = "failed"
        /\ requests[q].error = Some(SERVER_ERROR)

\* C10: the step in which the transport closes normally leaves the placeholder
\* with its content stripped of trailing whitespace, its reasoning trimmed
\* (absent when empty), both timestamps cleared, isReasoningStreaming false
\* and a duration that was already frozen unchanged.
C10_StreamEndFinalization ==
    [][\A r \in Requests :
          (requests[r].outcome # "ended" /\ requests'[r].outcome = "ended") =>
              /\ Finalized(messages'[requests[r].placeholder], PlaceholderOf(r))
              /\ IsSome(PlaceholderOf(r).reasoningDurationSeconds) =>
                    messages'[requests[r].placeholder].reasoningDurationSeconds =
                        PlaceholderOf(r).reasoningDurationSeconds]_vars

\* C10 witness: a stream ended normally on a message that had whitespace-only
\* content, padded reasoning and a frozen duration: the content is empty, the
\* reasoning trimmed, the duration kept.
C10_Witness ==
    \E r \in Requests :
        /\ requests[r].outcome = "ended"
        /\ PlaceholderOf(r).content = <<>>
        /\ PlaceholderOf(r).reasoning = Some(<<"H", "m", " ", " ", "H", "m">>)
        /\ PlaceholderOf(r).reasoningDurationSeconds = Some(1)
        /\ PlaceholderOf(r).reasoningStartedAt = None

\* C11: when the stream ends on a message that is still reasoning-streaming
\* and has no frozen duration, the duration becomes
\* max(1, round((time of stream end - reasoningStartedAt) / 1000)).
C11_DurationCoversStreamEnd ==
    [][\A r \in Requests :
          ( /\ requests[r].outcome # "ended"
            /\ requests'[r].outcome = "ended"
            /\ PlaceholderOf(r).isReasoningStreaming
            /\ ~IsSome(PlaceholderOf(r).reasoningDurationSeconds)
            /\ IsSome(PlaceholderOf(r).reasoningStartedAt) ) =>
              messages'[requests[r].placeholder].reasoningDurationSeconds =
                  Some(Max(1, RoundSeconds(
                      now - Val(PlaceholderOf(r).reasoningStartedAt))))]_vars

\* the messages of the session that are reasoning-streaming
StreamingMessages == {m \in Messages(messages) : m.isReasoningStreaming}

\* the duration the handoff freezes on message m
HandoffDuration(m) ==
    IF ~IsSome(m.reasoningDurationSeconds) /\ IsSome(m.reasoningStartedAt)
    THEN Some(Max(1, RoundSeconds(
             (IF IsSome(m.reasoningStoppedAt) THEN Val(m.reasoningStoppedAt)
              ELSE Val(m.reasoningStartedAt)) - Val(m.reasoningStartedAt))))
    ELSE m.reasoningDurationSeconds

\* C12 (as claimed): folding any delta that carries content text, with or
\* without reasoning text, into a reasoning-streaming message appends the
\* text, clears isReasoningStreaming and freezes the duration if none is set.
C12_ContentEndsReasoning ==
    \A m \in StreamingMessages : \A e \in ChunkDeltas :
        IsSome(e.content) =>
            LET n == foldDelta(m, e.content, e.reasoning, now)
            IN  /\ n.content = m.content \o Val(e.content)
                /\ n.isReasoningStreaming = FALSE
                /\ n.reasoningDurationSeconds = HandoffDuration(m)

\* C12 (amended): a delta that carries content text and no reasoning text,
\* folded into a reasoning-streaming message, appends the text, clears
\* isReasoningStreaming and freezes the duration if none is set; a delta that
\* carries both appends the content but is folded as reasoning: the message
\* stays reasoning-streaming and its duration is left as it was.
C12_ContentOnlyEndsReasoning ==
    \A m \in StreamingMessages : \A e \in ChunkDeltas :
        IsSome(e.content) =>
            LET n == foldDelta(m, e.content, e.reasoning, now)
            IN  /\ n.content = m.content \o Val(e.content)
                /\ ~IsSome(e.reasoning) =>
                      /\ n.isReasoningStreaming = FALSE
                      /\ n.reasoningDurationSeconds = HandoffDuration(m)
                      /\ n.reasoning = m.reasoning
                      /\ n.reasoningStartedAt = m.reasoningStartedAt
                      /\ n.reasoningStoppedAt = m.reasoningStoppedAt
                /\ IsSome(e.reasoning) =>
                      /\ n.isReasoningStreaming = TRUE
                      /\ n.reasoningDurationSeconds = m.reasoningDurationSeconds

\* C12 witness: a request still being read whose message went from reasoning
\* to content: the duration frozen, the content (split over two reads)
\* appended, no longer reasoning-streaming, the timestamps still in place.
C12_Witness ==
    \E r \in Requests :
        /\ requests[r].pc = "read"
        /\ PlaceholderOf(r).content = <<"H", "i", " ", "\n">>
        /\ PlaceholderOf(r).reasoning = Some(<<" ", "H", "m", " ">>)
        /\ PlaceholderOf(r).reasoningDurationSeconds = Some(1)
        /\ PlaceholderOf(r).isReasoningStreaming = FALSE
        /\ PlaceholderOf(r).reasoningStoppedAt = Some(Epoch)

\* the assistant messages of the session
AssistantMessages == {m \in Messages(messages) : m.role = "assistant"}

\* C13: folding a delta that carries reasoning text appends it to reasoning,
\* sets reasoningStartedAt to the current time only if it was unset, sets
\* reasoningStoppedAt to the current time and sets isReasoningStreaming.
C13_ReasoningDelta ==
    \A m \in AssistantMessages : \A e \in ChunkDeltas :
        IsSome(e.reasoning) =>
            LET n == foldDelta(m, e.content, e.reasoning, now)
            IN  /\ n.reasoning =
                      Some((IF IsSome(m.reasoning) THEN Val(m.reasoning) ELSE <<>>)
                           \o Val(e.reasoning))
                /\ n.reasoningStartedAt =
                      IF IsSome(m.reasoningStartedAt) THEN m.reasoningStartedAt
                      ELSE Some(now)
                /\ n.reasoningStoppedAt = Some(now)
                /\ n.isReasoningStreaming = TRUE
                /\ n.reasoningDurationSeconds = m.reasoningDurationSeconds

\* C13 witness: two reasoning deltas were folded 1600 ms apart: the text of
\* both is there, the start time is that of the first, the stop time that of
\* the second.
C13_Witness ==
    \E r \in Requests :
        /\ requests[r].pc = "read"
        /\ PlaceholderOf(r).reasoning =
              Some(<<" ", "H", "m", " ", " ", "H", "m", " ">>)
        /\ PlaceholderOf(r).reasoningStartedAt = Some(Epoch)
        /\ PlaceholderOf(r).reasoningStoppedAt = Some(Epoch + TickMs)
        /\ PlaceholderOf(r).isReasoningStreaming
        /\ now = Epoch + TickMs

\* C14 (as claimed): within a message reasoningStartedAt and
\* reasoningStoppedAt each receive a value at most once, and
\* reasoningStoppedAt receives one only in a step that is the
\* reasoning-to-content handoff or the end of the stream.
C14_TimestampsSetOnce ==
    [][\A i \in 1..Len(messages) :
          /\ (IsSome(messages[i].reasoningStartedAt)
                /\ IsSome(messages'[i].reasoningStartedAt)) =>
                 messages'[i].reasoningStartedAt = messages[i].reasoningStartedAt
          /\ (IsSome(messages[i].reasoningStoppedAt)
                /\ IsSome(messages'[i].reasoningStoppedAt)) =>
                 messages'[i].reasoningStoppedAt = messages[i].reasoningStoppedAt
          /\ (IsSome(messages'[i].reasoningStoppedAt)
                /\ messages'[i].reasoningStoppedAt # messages[i].reasoningStoppedAt) =>
                 \/ messages[i].isReasoningStreaming
                       /\ ~messages'[i].isReasoningStreaming
                 \/ \E r \in Requests :
                       /\ requests[r].placeholder = i
                       /\ requests'[r].outcome = "ended"]_vars

\* C14 (amended): reasoningStartedAt receives a value at most once (the time
\* of the first reasoning delta); reasoningStoppedAt is assigned the current
\* time by every fold that adds reasoning text, and by nothing else - the
\* handoff leaves it as it is; both are cleared only when the request ends.
C14_TimestampsAssigned ==
    [][\A i \in 1..Len(messages) :
          LET m == messages[i]
              n == messages'[i]
              grew == IsSome(n.reasoning) /\ n.isReasoningStreaming
                          /\ n.reasoning # m.reasoning
              ends == \E r \in Requests :
                          /\ requests[r].placeholder = i
                          /\ requests[r].outcome = "none"
                          /\ requests'[r].outcome # "none"
          IN  /\ IsSome(m.reasoningStartedAt) =>
                    \/ n.reasoningStartedAt = m.reasoningStartedAt
                    \/ n.reasoningStartedAt = None /\ ends
              /\ grew => n.reasoningStoppedAt = Some(now)
              /\ n.reasoningStoppedAt # m.reasoningStoppedAt =>
                    \/ grew
                    \/ n.reasoningStoppedAt = None /\ ends]_vars

\* C14 witness: reasoning kept arriving after the handoff: the message has a
\* frozen duration, its start time is that of the first reasoning delta and
\* its stop time was assigned again, 1600 ms later.
C14_Witness ==
    \E r \in Requests :
        /\ requests[r].pc = "read"
        /\ IsSome(PlaceholderOf(r).reasoningDurationSeconds)
        /\ PlaceholderOf(r).reasoningStartedAt = Some(Epoch)
        /\ PlaceholderOf(r).reasoningStoppedAt = Some(Epoch + TickMs)

\* the list a call of updateMessageById was given, and the one it returned
GivenList == args.heap[args.ref]
ReturnedList == returned.heap[returned.ret]
UpdateReturned == args.fn = "updateMessageById" /\ returned.fn = "updateMessageById"
IdPresent == \E i \in 1..Len(GivenList) : GivenList[i].id = args.id

\* C15: updateMessageById with an id that is not in the list returns the list
\* it was given, unchanged, without invoking the updater and without adding a
\* message.
C15_AbsentIdIsNoOp ==
    (UpdateReturned /\ ~IdPresent) =>
        /\ returned.ret = args.ref
        /\ returned.heap = args.heap
        /\ ReturnedList = GivenList
        /\ returned.calls = 0

\* C15 witness: a call on a list of three messages with an id none of them has
\* has returned.
C15_Witness ==
    /\ UpdateReturned
    /\ ~IdPresent
    /\ Len(GivenList) = 3
    /\ args.updater = "fail"

\* C16: when the id is present, updateMessageById returns a new list of the
\* same length and order in which the entry with that id is the updater's
\* result and every other entry is the one of the input; the input list is
\* as it was.
C16_CopyOnWrite ==
    (UpdateReturned /\ IdPresent) =>
        LET index == CHOOSE i \in 1..Len(GivenList) : GivenList[i].id = args.id
            old == GivenList[index]
        IN  /\ returned.ret # args.ref
            /\ returned.heap[args.ref] = GivenList
            /\ returned.calls = 1
            /\ Len(ReturnedList) = Len(GivenList)
            /\ \A j \in 1..Len(GivenList) :
                  /\ ReturnedList[j].id = GivenList[j].id
                  /\ j # index => ReturnedList[j] = GivenList[j]
            /\ ReturnedList[index] =
                  UpdaterOf(args.updater, GivenList)[old]

\* C16 witness: a call replaced the middle one of three messages by its
\* finalized form.
C16_Witness ==
    /\ UpdateReturned
    /\ Len(GivenList) = 3
    /\ args.id = GivenList[2].id
    /\ args.updater = "finalize"
    /\ ReturnedList[2].reasoning = Some(<<"H", "m">>)
    /\ GivenList[2].reasoning = Some(<<" ", "H", "m", " ">>)

C18_StopIsImmediate ==
    [][\A r \in Requests :
          /\ (~requests[r].aborted /\ requests'[r].aborted) =>
                /\ isStreaming /\ abortRef = Some(r)
                /\ isStreaming' = FALSE
                /\ abortRef' = None
                /\ requests'[r] = [requests[r] EXCEPT !.aborted = TRUE]
                /\ messages' = messages
          /\ ( /\ isStreaming /\ ~isStreaming'
               /\ \A q \in Requests : requests'[q].pc = requests[q].pc
               /\ abortRef = Some(r) ) =>
                requests'[r].aborted /\ abortRef' = None]_vars

\* C18 witness: a request was stopped while it was being read: its signal is
\* aborted, it is still suspended at reader.read(), the flag is false and the
\* handle cleared, and what it had streamed is still in its message.
C18_Witness ==
    \E r \in Requests :
        /\ requests[r].aborted
        /\ requests[r].pc = "read"
        /\ ~isStreaming
        /\ abortRef = None
        /\ PlaceholderOf(r).content = <<"o", "k">>

\* C19: the list grows only when a send begins, and then by exactly two
\* messages appended in one step: the user's message (the trimmed input and
\* the pending attachments) followed by an assistant placeholder with empty
\* content, empty reasoning, isReasoningStreaming false and an id of its own;
\* the messages that were there keep their position and value. Every send
\* that begins appends them.
C19_SendAppendsTwo ==
    [][/\ Len(messages') # Len(messages) =>
            /\ Len(messages') = Len(messages) + 2
            /\ SubSeq(messages', 1, Len(messages)) = messages
            /\ LET user == messages'[Len(messages) + 1]
                   placeholder == messages'[Len(messages) + 2]
               IN  /\ user.role = "user"
                   /\ user.content = trim(input)
                   /\ user.attachments =
                         IF Len(attachments) > 0 THEN Some(attachments) ELSE None
                   /\ placeholder.role = "assistant"
                   /\ placeholder.content = <<>>
                   /\ placeholder.reasoning = Some(<<>>)
                   /\ placeholder.isReasoningStreaming = FALSE
                   /\ placeholder.reasoningDurationSeconds = None
                   /\ placeholder.reasoningStartedAt = None
                   /\ placeholder.reasoningStoppedAt = None
                   /\ placeholder.attachments = None
                   /\ user.id # placeholder.id
                   /\ \A i \in 1..Len(messages) :
                         messages[i].id \notin {user.id, placeholder.id}
                   /\ \E r \in Requests :
                         /\ requests[r].pc = "idle"
                         /\ requests'[r].pc = "fetch"
                         /\ requests'[r].placeholder = placeholder.id
       /\ \A r \in Requests :
            (requests[r].pc = "idle" /\ requests'[r].pc # "idle") =>
                Len(messages') = Len(messages) + 2]_vars

\* C19 witness: a second send has begun behind a first one that streamed text:
\* four messages, the first answer in place, the new placeholder empty.
C19_Witness ==
    /\ Len(messages) = 4
    /\ messages[1].content = <<"q">>
    /\ messages[2].content = <<"o", "k">>
    /\ messages[3].role = "user"
    /\ messages[4] = createPlaceholderMessage(4)
    /\ requests[2].pc = "fetch"

\* C20: a parsed frame yields one Delta exactly when its content, its
\* reasoning or its reasoning_details value extracts non-empty text, and no
\* event otherwise; the Delta's content field is the content text when that
\* is non-empty and is absent otherwise, its reasoning field is present
\* exactly when the reasoning channel has text and is then non-empty, and at
\* least one of the two is present. One frame, parsed or not, never yields
\* more than one event.
C20_DeltaIffText ==
    /\ returned.fn = "parsedEvents" =>
          LET contentText == extractTextFromContent(args.content)
              reasoningText == extractReasoningText(args.reasoning)
              detailText == extractReasoningText(args.reasoning_details)
              hasReasoning == reasoningText # <<>> \/ detailText # <<>>
              emitted == returned.events
          IN  /\ Len(emitted) = IF contentText # <<>> \/ hasReasoning THEN 1 ELSE 0
              /\ \A i \in 1..Len(emitted) :
                    /\ emitted[i].type = "delta"
                    /\ emitted[i].content =
                          IF contentText # <<>> THEN Some(contentText) ELSE None
                    /\ IsSome(emitted[i].reasoning) <=> hasReasoning
                    /\ IsSome(emitted[i].reasoning) =>
                          Val(emitted[i].reasoning) # <<>>
                    /\ IsSome(emitted[i].content) \/ IsSome(emitted[i].reasoning)
    /\ returned.fn = "segmentEvents" => Len(returned.events) <= 1

\* C20 witness: a frame whose content is the empty string and whose
\* reasoning_details carry text has yielded a Delta without a content field.
C20_Witness ==
    /\ returned.fn = "parsedEvents"
    /\ args.place = "split"
    /\ args.content = JStr(<<>>)
    /\ args.reasoning = JUndef
    /\ args.reasoning_details =
          JArr(<<JObj("data" :> JStr(<<"x">>)), JObj("text" :> JStr(<<"y">>))>>)
    /\ returned.events = <<DeltaEvent(None, Some(<<"x", "y">>))>>

\* the event a frame stands for, read off its payload
FrameEvents(frame) ==
    LET payload == Payload(frame)
        parsed == JSONParse(payload)
    IN  IF payload = <<>> THEN <<>>
        ELSE IF payload = <<DONE>> THEN <<DoneEvent>>
        ELSE IF IsSome(parsed) THEN parsedEvents(Val(parsed))
        ELSE <<ErrorEvent(PARSE_ERROR)>>

\* the frames without the i-th, each closed by the delimiter
WithoutFrame(frames, i) ==
    join([j \in 1..(Len(frames) - 1) |->
            (IF j < i THEN frames[j] ELSE frames[j + 1]) \o DELIM])

\* C21: a call returns the events of its complete frames in the order of the
\* frames; a frame without a data line or with a blank payload gives no event
\* and the call returns what it returns without that frame; a content frame
\* followed by a [DONE] frame, both closed, gives [Delta "Hi", Done] and an
\* empty remainder.
C21_EventsInFrameOrder ==
    Called =>
        /\ callEvents = join([i \in 1..Len(CallFrames) |-> FrameEvents(CallFrames[i])])
        /\ \A i \in 1..Len(CallFrames) :
              Payload(CallFrames[i]) = <<>> =>
                  /\ Alone(CallFrames[i]) = <<>>
                  /\ extractEventsFromBuffer(WithoutFrame(CallFrames, i)).events
                        = callEvents
        /\ CallInput = <<DATA, SP, JOPEN, JCLOSE, NL, NL, DATA, DONE, SP, NL, NL>> =>
              /\ callEvents = <<DeltaEvent(Some(<<"H", "i">>), None), DoneEvent>>
              /\ buffer = <<>>

\* C21 witness: one call decoded a content frame, a frame with a blank
\* payload and a [DONE] frame and returned [Delta, Done].
C21_Witness ==
    /\ Called
    /\ Len(CallFrames) = 3
    /\ Payload(CallFrames[2]) = <<>>
    /\ callEvents = <<DeltaEvent(Some(<<"H", "i">>), None), DoneEvent>>
    /\ buffer = <<>>

\* every string leaf under the text, summary, data and content fields and
\* under array elements, in that order
RECURSIVE Leaves(_)
Leaves(v) ==
    CASE v.t = "str" -> v.s
      [] v.t = "arr" -> join([i \in 1..Len(v.a) |-> Leaves(v.a[i])])
      [] v.t = "obj" ->
            Leaves(Get(v, "text")) \o Leaves(Get(v, "summary"))
                \o Leaves(Get(v, "data")) \o Leaves(Get(v, "content"))
      [] OTHER -> <<>>

\* C22 (as claimed): on a value built from strings, arrays and records with
\* content/text/summary/data fields, the content extraction and the
\* reasoning extraction both return the concatenation of all its string
\* leaves, in order.
C22_ExtractsAllLeaves ==
    returned.fn \in {"extractTextFromContent", "extractReasoningText"} =>
        returned.text = Leaves(args.source)

\* C23: the reasoning text of a frame's Delta is the text of the reasoning
\* field followed by the text of the reasoning_details field, an empty text
\* left out and the second left out when it equals the first: equal texts
\* appear once, different texts appear both, reasoning first; when both are
\* empty the Delta has no reasoning field.
C23_ReasoningDeduplicated ==
    returned.fn = "parsedEvents" =>
        LET first == extractReasoningText(args.reasoning)
            second == extractReasoningText(args.reasoning_details)
            expected ==
                IF second = first THEN first ELSE first \o second
        IN  \A i \in 1..Len(returned.events) :
                returned.events[i].reasoning =
                    IF expected = <<>> THEN None ELSE Some(expected)

\* C23 witness: a frame carrying the same text in reasoning and in
\* reasoning_details has yielded a Delta with that text once.
C23_Witness ==
    /\ returned.fn = "parsedEvents"
    /\ args.reasoning = JStr(<<"s", "o">>)
    /\ args.reasoning_details = JArr(<<JObj("text" :> JStr(<<"s", "o">>))>>)
    /\ args.content = JUndef
    /\ returned.events = <<DeltaEvent(None, Some(<<"s", "o">>))>>

(***************************************************************************)
(* Claims about the attachment optimizer.                                  *)
(***************************************************************************)
\* a step that is one iteration of the compression loop
LoopIteration == opt.pc = "loop" /\ opt'.pc = "loop"
LongestEdge(o) == Max(o.width, o.height)

\* C24 (as claimed): the compression search terminates on every image
\* because each iteration of the loop strictly lowers the quality or the
\* scale.
C24_EveryIterationLowers ==
    [][LoopIteration =>
          \/ opt'.quality < opt.quality
          \/ ScaleLess(opt'.currentScale, opt.currentScale)]_vars

\* C25: prepareImageAttachment never returns an attachment over budget and
\* never misreports its size: every attachment returned, on the fast path,
\* after compression or by the fallback, has the size estimated from the
\* data URL it carries, and that size is at most the ceiling.
C25_ReturnedSizeWithinBudget ==
    opt.pc = "returned" =>
        /\ IsSome(opt.result)
        /\ Val(opt.result).size = estimateBase64Size(Val(opt.result).dataUrl)
        /\ Val(opt.result).size <= MAX_BASE64_ATTACHMENT_BYTES

\* C25 witness: a file over the ceiling has been compressed to a JPEG whose
\* estimate is the ceiling exactly; the size returned is that estimate, not
\* the file's size.
C25_Witness ==
    /\ opt.pc = "returned"
    /\ opt.path = "compress"
    /\ file.size = 1572865
    /\ opt.iterations >= 4
    /\ Val(opt.result).size = MAX_BASE64_ATTACHMENT_BYTES
    /\ Val(opt.result).dataUrl.body.src = "canvas"

\* C26 (as claimed): in the search quality is exhausted before resolution is
\* touched: an iteration reduces the scale only when the quality it starts
\* with is the floor; quality goes down by 0.10 at a time and never below
\* the floor; every iteration changes exactly one of quality and scale and
\* renders and measures again.
C26_QualityBeforeScale ==
    [][LoopIteration =>
          /\ opt'.currentScale # opt.currentScale =>
                opt.quality = MIN_JPEG_QUALITY
          /\ opt'.quality # opt.quality =>
                /\ opt'.quality = opt.quality - 10
                /\ opt'.quality \in {75, 65, 55}
          /\ opt'.quality >= MIN_JPEG_QUALITY
          /\ (opt'.quality # opt.quality) # (opt'.currentScale # opt.currentScale)
          /\ opt'.renders = opt.renders + 1
          /\ opt'.dataUrl.body =
                CanvasBody(opt'.width, opt'.height, opt'.quality)
          /\ opt'.size = estimateBase64Size(opt'.dataUrl)]_vars

\* C27 (as claimed): throughout the search the scale is at least the floor
\* scale min(1, 512 / longest edge) and at most the initial scale
\* min(1, 1600 / longest edge), so the longest rendered edge is at most 1600
\* and, within one pixel, at least min(512, longest original edge).
C27_ScaleWithinBounds ==
    opt.pc = "loop" =>
        /\ ~ScaleLess(opt.currentScale,
                      edgeScale(MIN_ATTACHMENT_EDGE, file.width, file.height))
        /\ ~ScaleLess(edgeScale(MAX_ATTACHMENT_EDGE, file.width, file.height),
                      opt.currentScale)
        /\ LongestEdge(opt) <= MAX_ATTACHMENT_EDGE
        /\ LongestEdge(opt) + 1 >=
              IF Max(file.width, file.height) < MIN_ATTACHMENT_EDGE
              THEN Max(file.width, file.height) ELSE MIN_ATTACHMENT_EDGE

\* the original file read unmodified
Original ==
    Attachment(readFileAsDataURL(file), estimateBase64Size(readFileAsDataURL(file)),
               file.type, file.name)
OriginalFits == Original.size <= MAX_BASE64_ATTACHMENT_BYTES
Exhausted == opt.caught = Some(compressError(file))
NamesFileAndCeiling(message) ==
    Contains(message, file.name) /\ Contains(message, <<"1", ".", "5">>)

\* C28 (as claimed): when the search has exhausted quality and scale with the
\* size still above the ceiling, the call fails and no attachment is
\* produced for the file.
C28_ExhaustionFails == Exhausted => opt.pc # "returned"

\* C28 (amended): when the search ends with the size still above the ceiling,
\* quality and scale are both at their floors and compressImageFile throws
\* an error naming the file and the ceiling in MB; prepareImageAttachment
\* catches it and reads the original: it fails, naming the file and the
\* ceiling, when the original is over the ceiling, or with the reader's
\* error when the read fails, and returns the original unmodified otherwise.
C28_ExhaustionFallsBack ==
    /\ [][(opt.pc = "loop" /\ opt'.pc # "loop"
              /\ opt.size > MAX_BASE64_ATTACHMENT_BYTES) =>
            /\ opt.quality = MIN_JPEG_QUALITY
            /\ opt.currentScale = opt.minScale
            /\ opt'.pc = "fallback"
            /\ opt'.caught = Some(compressError(file))
            /\ NamesFileAndCeiling(compressError(file))
            /\ opt'.result = None]_vars
    /\ [](Exhausted =>
            /\ opt.pc \in {"fallback", "failed", "returned"}
            /\ opt.pc = "returned" =>
                  OriginalFits /\ opt.result = Some(Original)
            /\ opt.pc = "failed" =>
                  \/ opt.error = Some(READ_ERROR)
                  \/ /\ ~OriginalFits
                     /\ opt.error = Some(tooLargeError(file))
                     /\ NamesFileAndCeiling(tooLargeError(file)))

\* C28 witness: the search on a PNG under the ceiling ran through all eleven
\* iterations above the ceiling, and the call returned the original.
C28_Witness ==
    /\ Exhausted
    /\ opt.iterations = 11
    /\ opt.pc = "returned"
    /\ file.type = "image/png"
    /\ opt.result = Some(Original)

\* C29 (as claimed): when a step of the fast path or of compression throws,
\* the original is read unmodified; the call fails, naming the file and the
\* ceiling, if the original is over the ceiling and returns the original
\* with its name and type otherwise: it refuses only an original that is
\* over the ceiling.
C29_RefusedOnlyWhenOverCeiling ==
    IsSome(opt.caught) =>
        /\ opt.pc = "failed" =>
              ~OriginalFits /\ opt.error = Some(tooLargeError(file))
        /\ opt.pc = "returned" => OriginalFits /\ opt.result = Some(Original)

\* C29 (amended): every throw of the fast path or of compression leads to
\* the fallback, which reads the original once more; if that read fails the
\* call fails with the reader's error; if the original is over the ceiling
\* the call fails with an error naming the file and the ceiling; otherwise
\* the call returns the original unmodified, with its name and type.
C29_FallbackReadsOriginal ==
    /\ [][(opt'.caught # opt.caught /\ opt'.calls = opt.calls) =>
            opt.caught = None /\ opt'.pc = "fallback"]_vars
    /\ [][(opt.pc = "fallback" /\ opt'.pc # "fallback") =>
            /\ IsSome(opt.caught)
            /\ opt'.reads = opt.reads + 1
            /\ opt'.decodes = opt.decodes /\ opt'.renders = opt.renders
            /\ \/ /\ opt'.pc = "failed"
                  /\ opt'.error = Some(READ_ERROR)
                  /\ opt'.result = None
               \/ /\ ~OriginalFits
                  /\ opt'.pc = "failed"
                  /\ opt'.error = Some(tooLargeError(file))
                  /\ NamesFileAndCeiling(tooLargeError(file))
                  /\ opt'.result = None
               \/ /\ OriginalFits
                  /\ opt'.pc = "returned"
                  /\ opt'.result = Some(Original)
                  /\ opt'.error = None]_vars
    /\ [](opt.path = "fallback" => IsSome(opt.caught))

\* C29 witness: the decode of a PNG under the ceiling failed and the call
\* returned the original.
C29_Witness ==
    /\ opt.caught = Some(DECODE_ERROR)
    /\ opt.pc = "returned"
    /\ opt.path = "fallback"
    /\ file.type = "image/png"
    /\ file.size = 1572864
    /\ opt.result = Some(Original)

\* C30: a JPEG file at or under the compression threshold whose reading is
\* within the ceiling is returned as read, with its name and type, in the
\* one step of the fast path, and nothing is decoded, rendered or encoded
\* for it; every other file is handed to the decoder of the compression.
C30_FastPath ==
    /\ [][(opt.pc = "start" /\ ~needsCompression(file) /\ opt'.pc # "fallback") =>
            /\ OriginalFits
            /\ opt'.pc = "returned"
            /\ opt'.path = "fast"
            /\ opt'.result = Some(Original)]_vars
    /\ [](~needsCompression(file) =>
            /\ opt.decodes = 0 /\ opt.renders = 0
            /\ opt.pc = "returned" => opt.result = Some(Original))
    /\ [](needsCompression(file) /\ opt.pc # "start" =>
            IF opt.pc = "decoding" THEN opt.url # 0 ELSE opt.decodes = 1)

\* C30 witness: a JPEG of exactly the threshold size has been returned on the
\* fast path.
C30_Witness ==
    /\ file.type = "image/jpeg"
    /\ file.size = COMPRESS_THRESHOLD_BYTES
    /\ opt.pc = "returned"
    /\ opt.path = "fast"
    /\ opt.reads = 1
    /\ opt.result = Some(Original)

(***************************************************************************)
(* Helpers of the size estimation claim.                                   *)
(***************************************************************************)
EncodedPart(string) ==
    LET pieces == split(string, <<",">>)
    IN  IF Len(pieces) >= 2 THEN pieces[2] ELSE <<>>
TrailingPads(s) ==
    Cardinality({i \in 1..Len(s) : s[i] = "=" /\ \A j \in i..Len(s) : s[j] = "="})

\* C31: size estimation is exact. For a payload of L bytes encoded as base64
\* with 0, 1 or 2 padding characters, estimateBase64Size on the data URL
\* returns floor(encodedLength * 3 / 4) minus the number of padding
\* characters, and that number is L; a data URL with no encoded part
\* returns 0.
C31_EstimateIsExact ==
    returned.fn = "estimateBase64Size" =>
        LET encoded == EncodedPart(args.dataUrl)
        IN  /\ TrailingPads(encoded) \in 0..2
            /\ returned.size = (Len(encoded) * 3) \div 4 - TrailingPads(encoded)
            /\ IsSome(args.payload) => returned.size = Val(args.payload)
            /\ encoded = <<>> => returned.size = 0

\* C31 witness: payloads whose encodings carry two, one and no padding
\* character have been measured (here the one with two), the result being
\* the payload's length.
C31_Witness ==
    /\ returned.fn = "estimateBase64Size"
    /\ IsSome(args.payload)
    /\ TrailingPads(EncodedPart(args.dataUrl)) = 2
    /\ returned.size = Val(args.payload)
    /\ returned.size > 3

(***************************************************************************)
(* Helpers of the decode handle claim.                                     *)
(***************************************************************************)
ObjectUrls == 1..Len(opt.revokes)
Allocated == {u \in ObjectUrls : opt.revokes[u] = 0}
Settled == opt.pc \in {"returned", "failed"}

\* C32: every object URL created by the decode step is released exactly once
\* before the step settles, whether the image loads or fails to load: a url
\* is allocated only while its decode is pending, and once the step has
\* settled it has been revoked once and is never revoked again. After any
\* sequence of optimizer calls no object URL remains allocated.
C32_HandlesReleased ==
    /\ \A u \in ObjectUrls :
          IF opt.pc = "decoding" /\ u = opt.url
          THEN opt.revokes[u] = 0
          ELSE opt.revokes[u] = 1
    /\ opt.pc = "decoding" <=> opt.url # 0
    /\ Settled => Allocated = {}

\* C32 witness: the second call of a sequence has failed after its image
\* could not be decoded, the first call having decoded an image as well; the
\* two urls have been revoked.
C32_Witness ==
    /\ opt.calls = 2
    /\ opt.pc = "failed"
    /\ opt.caught = Some(DECODE_ERROR)
    /\ opt.revokes = <<1, 1>>

(***************************************************************************)
(* Helpers of the end-to-end compression claim.                            *)
(***************************************************************************)
\* a file that is no JPEG, is over both size thresholds and has a longest
\* edge over the largest edge an attachment may have
LargeNonJpeg ==
    /\ file.type # "image/jpeg"
    /\ file.size > COMPRESS_THRESHOLD_BYTES
    /\ file.size > MAX_BASE64_ATTACHMENT_BYTES
    /\ Max(file.width, file.height) > MAX_ATTACHMENT_EDGE
RenderedEdge(dataUrl) == Max(dataUrl.body.width, dataUrl.body.height)

\* C33 (as claimed): for a non-JPEG image over the size thresholds whose
\* longest edge exceeds 1600 px, the output of the optimizer is of type
\* image/jpeg, its estimated size is at most 1.5 MB, its longest edge is at
\* most 1600 px, and the resolution was lowered only after the quality had
\* reached its floor.
C33_LargeImageOutput ==
    LargeNonJpeg =>
        /\ opt.pc = "returned" =>
              /\ Val(opt.result).type = "image/jpeg"
              /\ Val(opt.result).size = estimateBase64Size(Val(opt.result).dataUrl)
              /\ Val(opt.result).size <= MAX_BASE64_ATTACHMENT_BYTES
              /\ Val(opt.result).dataUrl.body.src = "canvas"
              /\ RenderedEdge(Val(opt.result).dataUrl) <= MAX_ATTACHMENT_EDGE
        /\ opt.currentScale # opt.initialScale => opt.quality = MIN_JPEG_QUALITY

(***************************************************************************)
(* Helpers of the serialization claim.                                     *)
(***************************************************************************)
GivenAttachments ==
    IF IsSome(args.message.attachments) THEN Val(args.message.attachments) ELSE <<>>
Blank(s) == \A i \in 1..Len(s) : IsSpace(s[i])

\* C34: mapMessageToApiContent gives plain text or a list of typed parts.
\* With n >= 1 attachments the result is a list of exactly one text part,
\* holding the message content or, when the content is blank, the fixed
\* fallback text, followed by n image_url parts carrying the attachments'
\* dataUrl values in attachment order. With no attachments the result is the
\* plain content string, the empty string when the content is blank.
C34_SerializedContent ==
    returned.fn = "mapMessageToApiContent" =>
        LET n == Len(GivenAttachments)
            content == args.message.content
            result == returned.content
        IN  IF n >= 1
            THEN /\ result.t = "parts"
                 /\ Len(result.parts) = n + 1
                 /\ result.parts[1].type = "text"
                 /\ result.parts[1].text =
                        IF Blank(content) THEN ATTACHMENT_ONLY_FALLBACK_TEXT
                        ELSE content
                 /\ \A i \in 1..n :
                        /\ result.parts[i + 1].type = "image_url"
                        /\ result.parts[i + 1].image_url.url =
                               GivenAttachments[i].dataUrl
            ELSE /\ result.t = "string"
                 /\ result.s = IF Blank(content) THEN <<>> ELSE content

\* C34 witness: a message with blank content and two different attachments
\* has been serialized to the fallback text and two image_url parts.
C34_Witness ==
    /\ returned.fn = "mapMessageToApiContent"
    /\ args.message.content = <<" ", "\n">>
    /\ Len(GivenAttachments) = 2
    /\ GivenAttachments[1] # GivenAttachments[2]
    /\ returned.content.t = "parts"
    /\ returned.content.parts[1].text = ATTACHMENT_ONLY_FALLBACK_TEXT

(***************************************************************************)
(* Helpers of the session claims on finalized responses.                   *)
(***************************************************************************)
\* the response of request r has been finalized: its stream ended, or it
\* failed on an error event or a failure of the transport
FinalizedRequest(r) == requests[r].outcome \in {"ended", "failed"}

\* C35: the finalized state is terminal. Once the placeholder of a request
\* has been finalized by stream end, by an error event or by a failure of the
\* transport, no step folds an event of that response (the request reads and
\* decodes nothing more) and the message, with its content, reasoning and
\* duration, never changes again, whatever is sent, received or cancelled
\* afterwards.
C35_FinalizedIsTerminal ==
    [][\A r \in Requests :
          FinalizedRequest(r) =>
              /\ requests'[r] = requests[r]
              /\ messages'[requests[r].placeholder] = PlaceholderOf(r)]_vars

\* C35 witness: the first response ended with content and reasoning kept,
\* the second response failed, and a third request has folded text into its
\* own placeholder since.
C35_Witness ==
    /\ requests[1].outcome = "ended"
    /\ PlaceholderOf(1).content # <<>>
    /\ IsSome(PlaceholderOf(1).reasoning)
    /\ requests[2].outcome = "failed"
    /\ requests[3].pc = "read"
    /\ PlaceholderOf(3).content # <<>>

\* the position of the first error event of a batch, 0 if it has none
FirstError(evs) ==
    LET hits == {i \in 1..Len(evs) : evs[i].type = "error"}
    IN  IF hits = {} THEN 0 ELSE CHOOSE i \in hits : \A j \in hits : i <= j

\* the content and the reasoning the delta events of a batch carry
RECURSIVE DeltaContent(_)
DeltaContent(evs) ==
    IF evs = <<>> THEN <<>>
    ELSE (IF Head(evs).type = "delta" /\ IsSome(Head(evs).content)
          THEN Val(Head(evs).content) ELSE <<>>) \o DeltaContent(Tail(evs))

\* the step on which request r reads a chunk and fails
ReadFails(r) ==
    /\ requests[r].pc = "read"
    /\ chunksRead' = chunksRead + 1
    /\ requests'[r].outcome = "failed"

\* C36: the first error event of a response stops the folding. The deltas in
\* front of it in the decoded batch are folded before the failure overwrite;
\* no event behind it in the batch is folded; the placeholder becomes the
\* failure record of that first error; and the request is over: it reads
\* nothing from the transport and folds nothing in any later step.
C36_FirstErrorStopsFolding ==
    /\ [][\A r \in Requests :
            ReadFails(r) =>
              \E c \in Chunks :
                LET evs == DecodedBy(r, c)
                    k == FirstError(evs)
                    id == requests[r].placeholder
                    whole == foldEvents(messages, id, evs, <<>>, now)
                    front == foldEvents(messages, id, Take(evs, k - 1), <<>>, now)
                IN  /\ k > 0
                    /\ front.thrown = None
                    /\ front.messages[id].content =
                           PlaceholderOf(r).content \o DeltaContent(Take(evs, k - 1))
                    /\ whole.messages = front.messages
                    /\ whole.thrown = evs[k].error
                    /\ FailureRecord(messages'[id], Val(evs[k].error))
                    /\ \A i \in 1..Len(messages) : i # id => messages'[i] = messages[i]
                    /\ Len(messages') = Len(messages)
                    /\ requests'[r].pc = "done"
                    /\ requests'[r].error = evs[k].error]_vars
    /\ [][\A r \in Requests :
            requests[r].outcome = "failed" =>
                /\ requests'[r] = requests[r]
                /\ messages'[requests[r].placeholder] = PlaceholderOf(r)]_vars

\* C36 witness: a request read a chunk with an unparseable payload and failed
\* with the parse error, its placeholder being the failure record; a later
\* request has folded content since.
C36_Witness ==
    \E r \in Requests : \E q \in Requests :
        /\ requests[r].outcome = "failed"
        /\ requests[r].error = Some(PARSE_ERROR)
        /\ FailureRecord(PlaceholderOf(r), PARSE_ERROR)
        /\ q > r
        /\ requests[q].pc = "read"
        /\ PlaceholderOf(q).content # <<>>

ChangedMessages == {i \in 1..Len(messages) : messages'[i] # messages[i]}

\* C38: every update made for a request (delta fold, stream-end
\* finalization, failure overwrite) changes only that request's own
\* placeholder: a step that changes a message is a step of one request that
\* is in flight and changes the message with that request's placeholder id,
\* and nothing else; user messages, with their content and attachments, and
\* the assistant messages of other requests stay as they are; the length, the
\* order, the ids and the roles of the list change only by a send appending a
\* user message and a placeholder.
C38_OnlyOwnPlaceholder ==
    [][\/ /\ Len(messages') = Len(messages) + 2
          /\ Take(messages', Len(messages)) = messages
          /\ messages'[Len(messages) + 1].role = "user"
          /\ messages'[Len(messages) + 2].role = "assistant"
          /\ \E r \in Requests :
                /\ requests[r].pc = "idle"
                /\ requests'[r].pc = "fetch"
                /\ requests'[r].placeholder = messages'[Len(messages) + 2].id
       \/ /\ Len(messages') = Len(messages)
          /\ \A i \in 1..Len(messages) :
                /\ messages'[i].id = messages[i].id
                /\ messages'[i].role = messages[i].role
                /\ messages'[i].attachments = messages[i].attachments
                /\ messages[i].role = "user" => messages'[i] = messages[i]
          /\ \A i \in ChangedMessages :
                \E r \in Requests :
                    /\ Live(r)
                    /\ messages[i].id = requests[r].placeholder
                    /\ ChangedMessages = {i}
                    /\ \A q \in Requests : q # r => requests'[q] = requests[q]]_vars

\* C38 witness: three requests were sent; the first ended with content, the
\* second failed, the third has folded text; the three user messages stand
\* as sent.
C38_Witness ==
    /\ Len(messages) = 6
    /\ \A i \in {1, 3, 5} : messages[i].role = "user" /\ messages[i].content = <<"q">>
    /\ requests[1].outcome = "ended"
    /\ messages[2].content # <<>>
    /\ requests[2].outcome = "failed"
    /\ requests[3].pc = "read"
    /\ messages[6].content # <<>>

\* the requests whose placeholder has the id of message m
OwnersOf(m) == {r \in Requests : requests[r].pc # "idle" /\ requests[r].placeholder = m.id}

\* C39: in every reachable state a message with isReasoningStreaming = true
\* is the assistant placeholder of a response that is not finalized yet, has
\* non-empty reasoning and has reasoningStartedAt and reasoningStoppedAt both
\* set with reasoningStartedAt <= reasoningStoppedAt (the clock never goes
\* back); and every reasoningDurationSeconds that is set is an integer of at
\* least 1.
C39_StreamingMessageShape ==
    \A i \in 1..Len(messages) :
        LET m == messages[i]
        IN  /\ m.isReasoningStreaming =>
                /\ m.role = "assistant"
                /\ OwnersOf(m) # {}
                /\ \A r \in OwnersOf(m) : Live(r) /\ requests[r].outcome = "none"
                /\ IsSome(m.reasoning)
                /\ Len(Val(m.reasoning)) > 0
                /\ IsSome(m.reasoningStartedAt)
                /\ IsSome(m.reasoningStoppedAt)
                /\ Val(m.reasoningStartedAt) <= Val(m.reasoningStoppedAt)
            /\ IsSome(m.reasoningDurationSeconds) =>
                /\ Val(m.reasoningDurationSeconds) \in Nat
                /\ Val(m.reasoningDurationSeconds) >= 1

\* C39 witness: the first response ended with a duration of one second for
\* reasoning that took no measurable time; the second is reasoning-streaming,
\* its last reasoning delta having arrived after its first.
C39_Witness ==
    /\ Len(messages) = 4
    /\ messages[2].reasoningDurationSeconds = Some(1)
    /\ ~messages[2].isReasoningStreaming
    /\ messages[4].isReasoningStreaming
    /\ Val(messages[4].reasoningStartedAt) < Val(messages[4].reasoningStoppedAt)

(***************************************************************************)
(* Helpers of the pending attachments claim.                               *)
(***************************************************************************)
\* the names an attachment made from a valid file can have
ValidNames ==
    UNION { {f.name, jpgName(f.name)} : f \in {g \in SelectableFiles : isValidFile(g)} }
SequenceItems(seq) == {seq[i] : i \in 1..Len(seq)}

\* C40: the pending attachment list never holds more than MAX_ATTACHMENTS (4)
\* entries, whatever selections (overlapping ones included), removals and
\* sends have happened; a file that is no image or is over 5 MB is never
\* handed to the optimizer and never enters the list.
C40_PendingAttachmentsBounded ==
    /\ Len(attachments) <= MAX_ATTACHMENTS
    /\ MAX_ATTACHMENTS = 4
    /\ \A s \in Selections :
          /\ \A f \in SequenceItems(selections[s].invoked) :
                IsImageType(f.type) /\ f.size <= 5 * 1024 * 1024
          /\ \A f \in SequenceItems(selections[s].fileList) :
                (~IsImageType(f.type) \/ f.size > 5 * 1024 * 1024) =>
                    /\ f \notin SequenceItems(selections[s].invoked)
                    /\ f \notin SequenceItems(selections[s].validFiles)
          /\ \A a \in SequenceItems(selections[s].attachmentsToAdd) :
                a.name \in ValidNames
    /\ \A a \in SequenceItems(attachments) : a.name \in ValidNames
    /\ \A i \in 1..Len(messages) :
          IsSome(messages[i].attachments) =>
              /\ Len(Val(messages[i].attachments)) <= MAX_ATTACHMENTS
              /\ \A a \in SequenceItems(Val(messages[i].attachments)) :
                    a.name \in ValidNames

\* C40 witness: two selections overlapped, one of them with a rejected file
\* among its files; together they prepared more attachments than the list
\* may hold, the second one's first; the list holds exactly four.
C40_Witness ==
    /\ Len(attachments) = MAX_ATTACHMENTS
    /\ \A s \in Selections : selections[s].pc = "done"
    /\ \E s \in Selections :
          Len(selections[s].validFiles) < Len(selections[s].fileList)
    /\ Len(selections[1].attachmentsToAdd) + Len(selections[2].attachmentsToAdd)
          > MAX_ATTACHMENTS
    /\ selections[1].attachmentsToAdd[1].id > selections[2].attachmentsToAdd[1].id

====
